---------------------------- MODULE Spec2Model ----------------------------
(***************************************************************************)
(* A model of the manga-dex-downloader tools:                              *)
(*   - splitter.py                  (split_cbz, main)                      *)
(*   - chapter_combiner_external.py (extract_chapter_number, combiner)     *)
(*   - downloader.py                (main, combine_chapters, resume)       *)
(* Strings are sequences of one-character strings so that Python's string  *)
(* comparison, formatting and regular expressions can be computed.         *)
(***************************************************************************)
EXTENDS Integers, Sequences, FiniteSets, TLC

(***************************************************************************)
(* Bounds of the model.                                                    *)
(***************************************************************************)
MaxEntries == 3

MaxSize == 2

MaxPieces == 4

MaxDirs == 2

(***************************************************************************)
(* Strings.                                                                *)
(***************************************************************************)
\* The characters used, in increasing code point order (Python compares
\* strings by code point).
Ascii ==
  << " ", ".", "0", "1", "2", "3", "4", "5", "6", "7", "8", "9",
     "A", "B", "C", "D", "E", "F", "G", "H", "I", "J", "K", "L", "M",
     "N", "O", "P", "Q", "R", "S", "T", "U", "V", "W", "X", "Y", "Z", "_",
     "a", "b", "c", "d", "e", "f", "g", "h", "i", "j", "k", "l", "m",
     "n", "o", "p", "q", "r", "s", "t", "u", "v", "w", "x", "y", "z" >>

Ord(c) == CHOOSE i \in 1..Len(Ascii) : Ascii[i] = c

Min(a, b) == IF a < b THEN a ELSE b

Max(a, b) == IF a < b THEN b ELSE a

\* Python's s < t on strings.
LexLess(s, t) ==
  \E i \in 1..(Min(Len(s), Len(t)) + 1) :
     /\ \A j \in 1..(i - 1) : s[j] = t[j]
     /\ \/ i > Len(s) /\ i <= Len(t)
        \/ i <= Len(s) /\ i <= Len(t) /\ Ord(s[i]) < Ord(t[i])

RECURSIVE InsertSorted(_, _)
\* Insert x after every element that is not greater (stable).
InsertSorted(x, s) ==
  IF s = << >> THEN << x >>
  ELSE IF LexLess(x, Head(s)) THEN << x >> \o s
       ELSE << Head(s) >> \o InsertSorted(x, Tail(s))

RECURSIVE SortStrings(_)
\* list.sort() / sorted() on a list of strings.
SortStrings(s) ==
  IF s = << >> THEN << >>
  ELSE InsertSorted(s[Len(s)], SortStrings(SubSeq(s, 1, Len(s) - 1)))

RECURSIVE SeqsUpTo(_, _)
\* All sequences over S of length at most n.
SeqsUpTo(S, n) ==
  IF n = 0 THEN { << >> }
  ELSE LET shorter == SeqsUpTo(S, n - 1)
       IN  shorter \cup { Append(q, x) : q \in shorter, x \in S }

RECURSIVE Flatten(_)
Flatten(ss) == IF ss = << >> THEN << >> ELSE Head(ss) \o Flatten(Tail(ss))

Range(s) == { s[i] : i \in 1..Len(s) }


Digits == { "0", "1", "2", "3", "4", "5", "6", "7", "8", "9" }

\* The characters \s matches, among those used.
Spaces == { " " }

DigitValue(c) == Ord(c) - Ord("0")

RECURSIVE DigitsToInt(_)
\* int() of a string of digits.
DigitsToInt(ds) ==
  IF ds = << >> THEN 0
  ELSE 10 * DigitsToInt(SubSeq(ds, 1, Len(ds) - 1)) + DigitValue(ds[Len(ds)])

RECURSIVE IntToDigits(_)
\* str() of a natural number.
IntToDigits(n) ==
  IF n < 10 THEN << Ascii[Ord("0") + n] >>
  ELSE Append(IntToDigits(n \div 10), Ascii[Ord("0") + (n % 10)])

RECURSIVE Zeros(_)
Zeros(k) == IF k <= 0 THEN << >> ELSE << "0" >> \o Zeros(k - 1)

\* format(n, "0<w>d"): zero fill to at least w characters.
ZeroPad(n, w) == Zeros(w - Len(IntToDigits(n))) \o IntToDigits(n)

RECURSIVE Pow10(_)
Pow10(k) == IF k = 0 THEN 1 ELSE 10 * Pow10(k - 1)

\* s[i:i+len(t)] == t
HasAt(s, i, t) == i >= 1 /\ i + Len(t) - 1 <= Len(s) /\ SubSeq(s, i, i + Len(t) - 1) = t

\* s[i] is one of the characters of cls.
ClassAt(s, i, cls) == i >= 1 /\ i <= Len(s) /\ s[i] \in cls

\* s.endswith(t)
EndsWith(s, t) == Len(t) <= Len(s) /\ SubSeq(s, Len(s) - Len(t) + 1, Len(s)) = t

\* The index after the longest run of characters of cls that starts at i
\* (a greedy cls* of a regular expression).
RunEnd(s, i, cls) ==
  CHOOSE j \in i..(Len(s) + 1) :
     /\ \A k \in i..(j - 1) : s[k] \in cls
     /\ j = Len(s) + 1 \/ s[j] \notin cls

(***************************************************************************)
(* State.                                                                  *)
(***************************************************************************)
VARIABLES
  \* splitter.py
  spc,            \* position in the splitter: start, loop, done
  entry,          \* which function was called: "main" or "split_cbz"
  archive,        \* the source archive: a sequence of [name, size]
  max_size,       \* the ceiling
  files,          \* split_cbz: the sorted name list
  fidx,           \* split_cbz: index of the next name of the for loop
  current_part,
  current_size,
  current_files,
  output_files,   \* the parts written, in order: [part, entries]
  \* chapter_combiner_external.extract_chapter_number
  epc,            \* "call" before the call, "returned" after it
  dirname,        \* the argument
  eresult,        \* the value returned
  \* chapter_combiner_external.combine_chapters
  cpc,            \* position: start, loop, zip, done, raised
  manga_dir,      \* os.listdir(manga_dir) with each item's kind and files
  chapter_dirs,   \* the sorted chapter directory names
  cidx,           \* index of the next directory of the for loop
  temp_exists,    \* whether the scratch directory exists
  temp_dir,       \* the scratch directory: file name -> the image copied
  output_cbz,     \* the entries written to the output archive, in order
  output_state,   \* absent, partial (open, being written) or complete
  warnings,       \* the directory names warned about, in order
  \* downloader.py: main and combine_chapters
  mpc,            \* position in main
  folder_exists,  \* whether the manga folder (output_base) exists
  folder,         \* the names of the files and directories in it
  folder0,        \* the folder's contents when main was started
  cbz,            \* archive name -> the entry names of that archive
  stats_file,     \* content of download_stats.json
  downloaded_chapters,
  resume_choice,  \* the valid answer given at the resume prompt, or "none"
  chapters,       \* what get_chapters returned
  ch_i,           \* the for loop's i: index of the chapter it is at
  page,           \* download_chapter: pages fetched so far
  download_stats, \* the statistics dict
  exc,            \* the exception being propagated: [site, i], site "none" if none
  env_failed,     \* a network or filesystem call has failed
  user_quit,      \* the user chose to quit or not to continue
  cleanup_failed, \* shutil.rmtree(output_base) raised in the except block
  started,        \* labels whose download was started, in order
  skipped,        \* labels skipped as already downloaded, in order
  chapter_files,  \* combine_chapters: the sorted archive names
  midx,           \* combine_chapters: index of the next archive
  mtemp_exists,   \* combine_chapters: whether the scratch directory exists
  combined,       \* the entries written to the combined archive: [name, from]
  \* downloader.py: get_chapters and check_chapter_availability
  gpc,            \* position in get_chapters
  offset,         \* the offset of the next request
  fetched,        \* len(chapters) of the pagination loop
  resp_total,     \* data["total"] of the last response
  offsets,        \* the offsets requested so far, in order
  records,        \* the accumulated chapter records: [label, rel, external]
  chapter_groups, \* the dict of versions by label, in insertion order
  all_groups,     \* the group names found
  preferred_group,
  gidx,           \* index of the label the selection loop is at
  selected_chapters, \* the selected records, by their place in records
  pref_prompted,  \* the preferred-group prompt has been shown
  prompted,       \* the labels a version prompt was shown for, in order
  user_skipped,   \* the labels the user answered 's' for
  apc,            \* position in check_chapter_availability
  translated_nums, \* labels of the language-filtered listing
  all_nums,       \* labels of the unfiltered listing
  missing_chapters \* what check_chapter_availability returned

splitVars ==
  << spc, entry, archive, max_size, files, fidx, current_part, current_size,
     current_files, output_files >>

extVars == << epc, dirname, eresult >>

combVars ==
  << cpc, manga_dir, chapter_dirs, cidx, temp_exists, temp_dir, output_cbz,
     output_state, warnings >>

fetchVars ==
  << mpc, folder_exists, folder, folder0, cbz, stats_file, downloaded_chapters,
     resume_choice, chapters, ch_i, page, download_stats, exc, env_failed, user_quit,
     cleanup_failed, started, skipped, chapter_files, midx, mtemp_exists, combined >>

listVars ==
  << gpc, offset, fetched, resp_total, offsets, records, chapter_groups, all_groups,
     preferred_group, gidx, selected_chapters, pref_prompted, prompted, user_skipped,
     apc, translated_nums, all_nums, missing_chapters >>

vars == << splitVars, extVars, combVars, fetchVars, listVars >>

\* The values of variables a specification does not use.
SplitIdle ==
  /\ spc = "idle"
  /\ entry = "none"
  /\ archive = << >>
  /\ max_size = 0
  /\ files = << >>
  /\ fidx = 1
  /\ current_part = 1
  /\ current_size = 0
  /\ current_files = << >>
  /\ output_files = << >>

ExtIdle ==
  /\ epc = "idle"
  /\ dirname = << >>
  /\ eresult = [ok |-> FALSE, n |-> 0, d |-> 1]

CombIdle ==
  /\ cpc = "idle"
  /\ manga_dir = << >>
  /\ chapter_dirs = << >>
  /\ cidx = 1
  /\ temp_exists = FALSE
  /\ temp_dir = << >>
  /\ output_cbz = << >>
  /\ output_state = "absent"
  /\ warnings = << >>

FetchIdle ==
  /\ mpc = "idle"
  /\ folder_exists = FALSE
  /\ folder = { }
  /\ folder0 = { }
  /\ cbz = << >>
  /\ stats_file = [kind |-> "absent"]
  /\ downloaded_chapters = { }
  /\ resume_choice = "none"
  /\ chapters = << >>
  /\ ch_i = 1
  /\ page = 0
  /\ download_stats = [kind |-> "absent"]
  /\ exc = [site |-> "none", i |-> 0]
  /\ env_failed = FALSE
  /\ user_quit = FALSE
  /\ cleanup_failed = FALSE
  /\ started = << >>
  /\ skipped = << >>
  /\ chapter_files = << >>
  /\ midx = 1
  /\ mtemp_exists = FALSE
  /\ combined = << >>

ListIdle ==
  /\ gpc = "idle"
  /\ offset = 0
  /\ fetched = 0
  /\ resp_total = 0
  /\ offsets = << >>
  /\ records = << >>
  /\ chapter_groups = << >>
  /\ all_groups = { }
  /\ preferred_group = "none"
  /\ gidx = 1
  /\ selected_chapters = << >>
  /\ pref_prompted = FALSE
  /\ prompted = << >>
  /\ user_skipped = { }
  /\ apc = "idle"
  /\ translated_nums = { }
  /\ all_nums = { }
  /\ missing_chapters = << >>

\* What an action of one tool leaves alone: the other tools' variables.
SplitOnly == UNCHANGED << extVars, combVars, fetchVars, listVars >>

ExtractOnly == UNCHANGED << splitVars, combVars, fetchVars, listVars >>

CombineOnly == UNCHANGED << splitVars, extVars, fetchVars, listVars >>

FetchOnly == UNCHANGED << splitVars, extVars, combVars, listVars >>

ListOnly == UNCHANGED << splitVars, extVars, combVars, fetchVars >>

(***************************************************************************)
(* splitter.py                                                             *)
(***************************************************************************)
\* Entry names of the source archives considered ("10" sorts before "2").
EntryNames == { << "1" >>, << "1", "0" >>, << "2" >> }

EntrySizes == 0..MaxSize

Ceilings == 0..(MaxSize + 1)

Archives == SeqsUpTo([name : EntryNames, size : EntrySizes], MaxEntries)

\* cbz.namelist(): the names of all entries, in archive order.
NameList(a) == [i \in 1..Len(a) |-> a[i].name]

\* cbz.getinfo(name): zipfile keeps, per name, the last entry of that name.
GetInfo(a, name) ==
  a[CHOOSE i \in 1..Len(a) :
       /\ a[i].name = name
       /\ \A j \in (i + 1)..Len(a) : a[j].name # name]

RECURSIVE SumSizes(_)
SumSizes(a) == IF a = << >> THEN 0 ELSE Head(a).size + SumSizes(Tail(a))

\* get_cbz_size: the sum of file_size over infolist().
GetCbzSize(a) == SumSizes(a)

\* files = cbz.namelist(); files.sort()
SortedNameListMutant(a) == NameList(a)

SortedNameList(a) == SortStrings(NameList(a))

\* The test that closes the current part.
PartIsFullMutant(size, file_size, cur, ceiling) == size > ceiling /\ cur # << >>

PartIsFullEarlyMutant(size, file_size, cur, ceiling) == size + file_size >= ceiling /\ cur # << >>

PartIsFull(size, file_size, cur, ceiling) == size + file_size > ceiling /\ cur # << >>

\* The entries written to a part: out_cbz.writestr(f, cbz.read(f)) for f in
\* current_files; cbz.read(f) reads the entry getinfo(f) names.
WritePart(a, part, names) ==
  [part |-> part,
   entries |-> [i \in 1..Len(names) |-> [name |-> names[i], size |-> GetInfo(a, names[i]).size]]]

\* The list reset after a part is written.
ResetFilesMutant(cur) == cur

ResetFiles(cur) == << >>

SplitInit ==
  /\ spc = "start"
  /\ entry \in {"main", "split_cbz"}
  /\ archive \in Archives
  /\ max_size \in Ceilings
  /\ files = << >>
  /\ fidx = 1
  /\ current_part = 1
  /\ current_size = 0
  /\ current_files = << >>
  /\ output_files = << >>
  /\ ExtIdle /\ CombIdle /\ FetchIdle /\ ListIdle

\* splitter.main, line 128: original_size <= max_size_bytes
NoSplitNeededMutant(original_size, max_size_bytes) == original_size < max_size_bytes

NoSplitNeeded(original_size, max_size_bytes) == original_size <= max_size_bytes

\* splitter.main: an archive not larger than the ceiling is left alone.
SplitterMainNoSplit ==
  /\ spc = "start" /\ entry = "main"
  /\ NoSplitNeeded(GetCbzSize(archive), max_size)
  /\ spc' = "done"
  /\ UNCHANGED << entry, archive, max_size, files, fidx, current_part,
                  current_size, current_files, output_files >>
  /\ SplitOnly

\* split_cbz, up to the for loop (called directly or from main).
SplitCbzOpen ==
  /\ spc = "start"
  /\ entry = "main" => ~NoSplitNeeded(GetCbzSize(archive), max_size)
  /\ files' = SortedNameList(archive)
  /\ fidx' = 1
  /\ current_part' = 1
  /\ current_size' = 0
  /\ current_files' = << >>
  /\ output_files' = << >>
  /\ spc' = "loop"
  /\ UNCHANGED << entry, archive, max_size >>
  /\ SplitOnly

\* One iteration of the for loop.
SplitCbzNext ==
  /\ spc = "loop"
  /\ fidx <= Len(files)
  /\ LET file_name == files[fidx]
         file_size == GetInfo(archive, file_name).size
         full == PartIsFull(current_size, file_size, current_files, max_size)
     IN  /\ output_files' =
              IF full THEN Append(output_files, WritePart(archive, current_part, current_files))
              ELSE output_files
         /\ current_part' = IF full THEN current_part + 1 ELSE current_part
         /\ current_size' = (IF full THEN 0 ELSE current_size) + file_size
         /\ current_files' =
              Append(IF full THEN ResetFiles(current_files) ELSE current_files, file_name)
  /\ fidx' = fidx + 1
  /\ UNCHANGED << spc, entry, archive, max_size, files >>
  /\ SplitOnly

\* After the loop: the final part, if any names remain.
SplitCbzFinal ==
  /\ spc = "loop"
  /\ fidx > Len(files)
  /\ output_files' =
       IF current_files # << >>
       THEN Append(output_files, WritePart(archive, current_part, current_files))
       ELSE output_files
  /\ spc' = "done"
  /\ UNCHANGED << entry, archive, max_size, files, fidx, current_part,
                  current_size, current_files >>
  /\ SplitOnly

SplitNext ==
  \/ SplitterMainNoSplit
  \/ SplitCbzOpen
  \/ SplitCbzNext
  \/ SplitCbzFinal


(***************************************************************************)
(* Claims about split_cbz.                                                 *)
(***************************************************************************)
\* split_cbz has returned (main did not stop at "No splitting needed").
SplitRan == spc = "done" /\ ~(entry = "main" /\ GetCbzSize(archive) <= max_size)

\* The entries of all parts, concatenated in part order.
PartEntries == Flatten([p \in 1..Len(output_files) |-> output_files[p].entries])

PartNames == NameList(PartEntries)

Count(s, x) == Cardinality({ i \in 1..Len(s) : s[i] = x })

IsSortedNames(s) == \A i \in 1..Len(s) : \A j \in (i + 1)..Len(s) : ~LexLess(s[j], s[i])

\* C1 as stated: for every source archive and ceiling, the parts of
\* split_cbz, concatenated in part order, reproduce the source's entry list
\* in the source's own order.
C1_SourceOrderKept == SplitRan => PartNames = NameList(archive)

\* C1 as amended: the parts of split_cbz, concatenated in part order, hold
\* the source's entry names, each as often as the source holds it, in
\* ascending code point order of the names (the source's order exactly when
\* the source is sorted by name); each written entry carries the data of the
\* last source entry of its name.
C1_SortedPermutation ==
  SplitRan =>
    /\ Len(PartNames) = Len(archive)
    /\ \A n \in EntryNames : Count(PartNames, n) = Count(NameList(archive), n)
    /\ IsSortedNames(PartNames)
    /\ IsSortedNames(NameList(archive)) => PartNames = NameList(archive)
    /\ \A i \in 1..Len(PartEntries) :
         PartEntries[i].size = GetInfo(archive, PartEntries[i].name).size

\* C1 witness: a split into several parts of a source that was not sorted.
C1_Witness ==
  /\ SplitRan
  /\ Len(output_files) >= 2
  /\ ~IsSortedNames(NameList(archive))

\* C2: every part written by split_cbz has an uncompressed size sum of at
\* most the ceiling, unless it holds exactly one entry and that entry alone
\* is larger than the ceiling.
C2_PartsWithinCeiling ==
  \A p \in 1..Len(output_files) :
     LET e == output_files[p].entries
     IN  \/ SumSizes(e) <= max_size
         \/ Len(e) = 1 /\ e[1].size > max_size

\* C2 witness: a finished split with a part of several entries within the
\* ceiling and a part holding one oversized entry.
C2_Witness ==
  /\ SplitRan
  /\ \E p \in 1..Len(output_files) :
        Len(output_files[p].entries) = 1 /\ output_files[p].entries[1].size > max_size
  /\ \E p \in 1..Len(output_files) :
        Len(output_files[p].entries) >= 2 /\ SumSizes(output_files[p].entries) = max_size


(***************************************************************************)
(* chapter_combiner_external.py: extract_chapter_number                    *)
(***************************************************************************)
\* A float that a decimal literal denotes, as the fraction n / d in lowest
\* power-of-ten terms; ok is FALSE for None.
NoKey == [ok |-> FALSE, n |-> 0, d |-> 1]

RECURSIVE Key(_, _)
Key(n, d) ==
  IF d > 1 /\ n % 10 = 0 THEN Key(n \div 10, d \div 10)
  ELSE [ok |-> TRUE, n |-> n, d |-> d]

\* k1 < k2 on floats.
KeyLess(k1, k2) == k1.n * k2.d < k2.n * k1.d

\* int(k): truncation.
KeyInt(k) == k.n \div k.d

\* float(match.group(1)) for the group (\d+\.?\d*) that starts at s[i],
\* where s[i] is a digit.
FloatGroupAt(s, i) ==
  LET d1 == RunEnd(s, i, Digits)
      dot == ClassAt(s, d1, {"."})
      d2 == IF dot THEN RunEnd(s, d1 + 1, Digits) ELSE d1
      whole == SubSeq(s, i, d1 - 1)
      frac == IF dot THEN SubSeq(s, d1 + 1, d2 - 1) ELSE << >>
  IN  Key(DigitsToInt(whole \o frac), Pow10(Len(frac)))

\* re.search tries the positions from the left: the least position of a
\* non-empty set of positions where the pattern matches.
Leftmost(hits) == CHOOSE i \in hits : \A j \in hits : i <= j

\* The positions of s at which At matches are those where it gives a key.
\* pattern1 = [Cc]h\.\s*(\d+\.?\d*)
Pattern1At(s, i) ==
  IF ClassAt(s, i, {"C", "c"}) /\ HasAt(s, i + 1, << "h", "." >>)
  THEN LET j == RunEnd(s, i + 3, Spaces)
       IN  IF ClassAt(s, j, Digits) THEN FloatGroupAt(s, j) ELSE NoKey
  ELSE NoKey

\* pattern2 = [Cc]hapter\s+(\d+\.?\d*)
Pattern2At(s, i) ==
  IF /\ ClassAt(s, i, {"C", "c"})
     /\ HasAt(s, i + 1, << "h", "a", "p", "t", "e", "r" >>)
     /\ ClassAt(s, i + 7, Spaces)
  THEN LET j == RunEnd(s, i + 7, Spaces)
       IN  IF ClassAt(s, j, Digits) THEN FloatGroupAt(s, j) ELSE NoKey
  ELSE NoKey

\* pattern3 = [Vv]ol\.\d+\s*[Cc]h\.\s*(\d+\.?\d*)
Pattern3At(s, i) ==
  IF /\ ClassAt(s, i, {"V", "v"})
     /\ HasAt(s, i + 1, << "o", "l", "." >>)
     /\ ClassAt(s, i + 4, Digits)
  THEN LET a == RunEnd(s, i + 4, Digits)
           b == RunEnd(s, a, Spaces)
       IN  IF ClassAt(s, b, {"C", "c"}) /\ HasAt(s, b + 1, << "h", "." >>)
           THEN LET c == RunEnd(s, b + 3, Spaces)
                IN  IF ClassAt(s, c, Digits) THEN FloatGroupAt(s, c) ELSE NoKey
           ELSE NoKey
  ELSE NoKey

\* The start of the volume digits of [Vv]ol\.\s*(\d+) matched at i, or 0.
VolDigitsAt(s, i) ==
  IF ClassAt(s, i, {"V", "v"}) /\ HasAt(s, i + 1, << "o", "l", "." >>)
  THEN LET a == RunEnd(s, i + 4, Spaces)
       IN  IF ClassAt(s, a, Digits) THEN a ELSE 0
  ELSE 0

\* float(f"{vol_num}{floor_num:03d}")
FloorKey(vol_num, floor_num) ==
  Key(DigitsToInt(IntToDigits(vol_num) \o ZeroPad(floor_num, 3)), 1)

\* pattern4 = [Vv]ol\.\s*(\d+)\s*[Ff]loor\s+(\d+)
Pattern4At(s, i) ==
  LET a == VolDigitsAt(s, i)
  IN  IF a = 0 THEN NoKey
      ELSE LET b == RunEnd(s, a, Digits)
               c == RunEnd(s, b, Spaces)
           IN  IF /\ ClassAt(s, c, {"F", "f"})
                  /\ HasAt(s, c + 1, << "l", "o", "o", "r" >>)
                  /\ ClassAt(s, c + 5, Spaces)
               THEN LET e == RunEnd(s, c + 5, Spaces)
                    IN  IF ClassAt(s, e, Digits)
                        THEN FloorKey(DigitsToInt(SubSeq(s, a, b - 1)),
                                      DigitsToInt(SubSeq(s, e, RunEnd(s, e, Digits) - 1)))
                        ELSE NoKey
               ELSE NoKey

\* float(f"{vol_num + 1}000")
ExtraKey(vol_num) == Key(DigitsToInt(IntToDigits(vol_num + 1) \o << "0", "0", "0" >>), 1)

\* pattern5 = [Vv]ol\.\s*(\d+)\s*[Ee]xtra
Pattern5At(s, i) ==
  LET a == VolDigitsAt(s, i)
  IN  IF a = 0 THEN NoKey
      ELSE LET b == RunEnd(s, a, Digits)
               c == RunEnd(s, b, Spaces)
           IN  IF ClassAt(s, c, {"E", "e"}) /\ HasAt(s, c + 1, << "x", "t", "r", "a" >>)
               THEN ExtraKey(DigitsToInt(SubSeq(s, a, b - 1)))
               ELSE NoKey

\* The five rules, each the result of re.search with its pattern.
Rule1(s) ==
  LET hits == { i \in 1..Len(s) : Pattern1At(s, i).ok }
  IN  IF hits = { } THEN NoKey ELSE Pattern1At(s, Leftmost(hits))

Rule2(s) ==
  LET hits == { i \in 1..Len(s) : Pattern2At(s, i).ok }
  IN  IF hits = { } THEN NoKey ELSE Pattern2At(s, Leftmost(hits))

Rule3(s) ==
  LET hits == { i \in 1..Len(s) : Pattern3At(s, i).ok }
  IN  IF hits = { } THEN NoKey ELSE Pattern3At(s, Leftmost(hits))

Rule4(s) ==
  LET hits == { i \in 1..Len(s) : Pattern4At(s, i).ok }
  IN  IF hits = { } THEN NoKey ELSE Pattern4At(s, Leftmost(hits))

Rule5(s) ==
  LET hits == { i \in 1..Len(s) : Pattern5At(s, i).ok }
  IN  IF hits = { } THEN NoKey ELSE Pattern5At(s, Leftmost(hits))

\* A plausible slip: "Chapter N" tried before "Ch.N".
ExtractChapterNumberMutant(s) ==
  IF Rule2(s).ok THEN Rule2(s)
  ELSE IF Rule1(s).ok THEN Rule1(s)
  ELSE IF Rule3(s).ok THEN Rule3(s)
  ELSE IF Rule4(s).ok THEN Rule4(s)
  ELSE IF Rule5(s).ok THEN Rule5(s)
  ELSE NoKey

\* extract_chapter_number(dirname)
ExtractChapterNumber(s) ==
  IF Rule1(s).ok THEN Rule1(s)
  ELSE IF Rule2(s).ok THEN Rule2(s)
  ELSE IF Rule3(s).ok THEN Rule3(s)
  ELSE IF Rule4(s).ok THEN Rule4(s)
  ELSE IF Rule5(s).ok THEN Rule5(s)
  ELSE NoKey

\* The names tried: the examples of the documentation and every
\* concatenation of at most MaxPieces pieces.
NamePieces ==
  { << "C", "h", "." >>,
    << "C", "h", "a", "p", "t", "e", "r", " " >>,
    << "V", "o", "l", "." >>,
    << " ", "F", "l", "o", "o", "r", " " >>,
    << " ", "E", "x", "t", "r", "a" >>,
    << "5" >>, << "4", "1" >>, << " " >>, << "." >>, << "x" >> }

N_Ch11 == << "C", "h", ".", "1", "1" >>

N_Chapter46 == << "C", "h", "a", "p", "t", "e", "r", " ", "4", "6" >>

N_Vol01Ch003 == << "V", "o", "l", ".", "0", "1", " ", "C", "h", ".", "0", "0", "3" >>

N_Vol5Floor41 == << "V", "o", "l", ".", "5", " ", "F", "l", "o", "o", "r", " ", "4", "1" >>

N_Vol5Extra == << "V", "o", "l", ".", "5", " ", "E", "x", "t", "r", "a" >>

N_lower == << "v", "o", "l", ".", "1", "2", "e", "x", "t", "r", "a" >>

N_extras == << "e", "x", "t", "r", "a", "s" >>

ExampleNames ==
  { N_Ch11, N_Chapter46, N_Vol01Ch003, N_Vol5Floor41, N_Vol5Extra, N_lower, N_extras }

ExtractNames ==
  ExampleNames \cup { Flatten(ps) : ps \in SeqsUpTo(NamePieces, MaxPieces) }

ExtractInit ==
  /\ epc = "call"
  /\ dirname \in ExtractNames
  /\ eresult = NoKey
  /\ SplitIdle /\ CombIdle /\ FetchIdle /\ ListIdle

\* The call extract_chapter_number(dirname).
ExtractCall ==
  /\ epc = "call"
  /\ eresult' = ExtractChapterNumber(dirname)
  /\ epc' = "returned"
  /\ UNCHANGED dirname
  /\ ExtractOnly

ExtractNext == ExtractCall



(***************************************************************************)
(* Claims about extract_chapter_number.                                    *)
(***************************************************************************)
\* The documented examples.
ExtractExamples ==
  /\ ExtractChapterNumber(N_Ch11) = Key(11, 1)
  /\ ExtractChapterNumber(N_Chapter46) = Key(46, 1)
  /\ ExtractChapterNumber(N_Vol01Ch003) = Key(3, 1)
  /\ ExtractChapterNumber(N_Vol5Floor41) = Key(5041, 1)
  /\ ExtractChapterNumber(N_Vol5Extra) = Key(6000, 1)
  /\ ExtractChapterNumber(N_extras) = NoKey

\* C10: extract_chapter_number applies its five rules in the order Ch.N,
\* Chapter N, Vol.N Ch.M, Vol.N Floor M, Vol.N Extra and returns the key of
\* the first rule that matches ("Ch.11" 11, "Chapter 46" 46, "Vol.01 Ch.003"
\* 3, "Vol.5 Floor 41" 5041, "Vol.5 Extra" 6000); a name that matches no
\* rule (in particular a name without a digit) gives no result.
C10_FirstMatchingRule ==
  /\ ExtractExamples
  /\ epc = "returned" =>
       LET r == << Rule1(dirname), Rule2(dirname), Rule3(dirname), Rule4(dirname),
                   Rule5(dirname) >>
           matching == { k \in 1..5 : r[k].ok }
       IN  /\ matching = { } => eresult = NoKey
           /\ matching # { } => eresult = r[Leftmost(matching)]
           /\ (\A i \in 1..Len(dirname) : dirname[i] \notin Digits) => eresult = NoKey
           /\ eresult.ok => eresult.d >= 1 /\ eresult.n >= 0

\* C10 witness: a name that both "Ch.N" and "Chapter N" match, with
\* different numbers, for which the call returned the number after "Ch.".
C10_Witness ==
  /\ epc = "returned"
  /\ Rule1(dirname).ok /\ Rule2(dirname).ok
  /\ Rule1(dirname) # Rule2(dirname)
  /\ eresult = Rule1(dirname)


(***************************************************************************)
(* chapter_combiner_external.py: the directory combiner                    *)
(***************************************************************************)
\* float('inf'), ordered after every key by KeyLess.
Inf == [ok |-> TRUE, n |-> 1, d |-> 0]

\* The sort key of get_chapter_directories:
\* extract_chapter_number(x) or float('inf'); None and 0.0 are both falsy.
DirSortKey(name) ==
  LET k == ExtractChapterNumber(name)
  IN  IF k.ok /\ k.n # 0 THEN k ELSE Inf

RECURSIVE InsertDir(_, _)
InsertDir(x, s) ==
  IF s = << >> THEN << x >>
  ELSE IF KeyLess(DirSortKey(x), DirSortKey(Head(s))) THEN << x >> \o s
       ELSE << Head(s) >> \o InsertDir(x, Tail(s))

RECURSIVE SortDirs(_)
\* sorted(chapter_dirs, key=...): stable.
SortDirs(s) ==
  IF s = << >> THEN << >>
  ELSE InsertDir(s[Len(s)], SortDirs(SubSeq(s, 1, Len(s) - 1)))

RECURSIVE DirItems(_)
\* The names of the items of a listing that are directories, in order.
DirItems(listing) ==
  IF listing = << >> THEN << >>
  ELSE (IF Head(listing).isdir THEN << Head(listing).name >> ELSE << >>)
       \o DirItems(Tail(listing))

\* get_chapter_directories(manga_dir)
GetChapterDirectories(listing) == SortDirs(DirItems(listing))

UpperCase ==
  { "A", "B", "C", "D", "E", "F", "G", "H", "I", "J", "K", "L", "M",
    "N", "O", "P", "Q", "R", "S", "T", "U", "V", "W", "X", "Y", "Z" }

\* str.lower()
Lower(s) ==
  [i \in 1..Len(s) |->
     IF s[i] \in UpperCase THEN Ascii[Ord(s[i]) + (Ord("a") - Ord("A"))] ELSE s[i]]

ImageExtensions ==
  { << ".", "j", "p", "g" >>, << ".", "j", "p", "e", "g" >>,
    << ".", "p", "n", "g" >>, << ".", "w", "e", "b", "p" >> }

\* f.lower().endswith(('.jpg', '.jpeg', '.png', '.webp'))
IsImage(f) == \E e \in ImageExtensions : EndsWith(Lower(f), e)

\* os.path.splitext(f)[1]: from the last dot, unless only dots precede it.
SplitExt(f) ==
  LET dots == { i \in 1..Len(f) : f[i] = "." }
  IN  IF dots = { } THEN << >>
      ELSE LET last == CHOOSE i \in dots : \A j \in dots : j <= i
           IN  IF \A j \in 1..(last - 1) : f[j] = "." THEN << >>
               ELSE SubSeq(f, last, Len(f))

RECURSIVE SetToSortedSeq(_)
\* sorted() of a set of distinct strings.
SetToSortedSeq(S) ==
  IF S = { } THEN << >>
  ELSE LET least == CHOOSE x \in S : \A y \in S : x = y \/ LexLess(x, y)
       IN  << least >> \o SetToSortedSeq(S \ { least })

\* The item of the listing with the given name.
ItemOf(listing, name) ==
  listing[CHOOSE i \in 1..Len(listing) : listing[i].name = name]

\* chapter_num_str = f"{int(chapter_num):04d}"
ChapterNumStrMutant(k) == ZeroPad(KeyInt(k), 3)

ChapterNumStr(k) == ZeroPad(KeyInt(k), 4)

\* new_name = f"{chapter_num_str}_{i:03d}{ext}"
NewName(chapter_num_str, i, image_file) ==
  chapter_num_str \o << "_" >> \o ZeroPad(i, 3) \o SplitExt(image_file)

\* process_chapter with copies that never replace an existing file.
ProcessChapterMutant(tmp, dir, chapter_num_str) ==
  LET image_files == SetToSortedSeq({ f \in dir.files : IsImage(f) })
      NameOf(i) == NewName(chapter_num_str, i, image_files[i])
      new_names == { NameOf(i) : i \in 1..Len(image_files) }
      SrcOf(nm) == LET i == CHOOSE j \in 1..Len(image_files) : NameOf(j) = nm
                   IN  [dir |-> dir.name, file |-> image_files[i]]
  IN  [nm \in (DOMAIN tmp) \cup new_names |->
         IF nm \in DOMAIN tmp THEN tmp[nm] ELSE SrcOf(nm)]

\* process_chapter: the scratch directory after the images of the directory
\* are copied in; a copy onto an existing name replaces the file.
ProcessChapter(tmp, dir, chapter_num_str) ==
  LET image_files == SetToSortedSeq({ f \in dir.files : IsImage(f) })
      copied == { i \in 1..Len(image_files) : TRUE }
      NameOf(i) == NewName(chapter_num_str, i, image_files[i])
      new_names == { NameOf(i) : i \in copied }
      SrcOf(nm) == LET i == CHOOSE j \in copied : NameOf(j) = nm
                   IN  [dir |-> dir.name, file |-> image_files[i]]
  IN  [nm \in (DOMAIN tmp) \cup new_names |->
         IF nm \in new_names THEN SrcOf(nm) ELSE tmp[nm]]

\* The entries output_cbz.write adds: for file in sorted(os.listdir(temp_dir)).
ZipEntries(tmp) ==
  LET names == SetToSortedSeq(DOMAIN tmp)
  IN  [i \in 1..Len(names) |-> [name |-> names[i], src |-> tmp[names[i]]]]

\* The trees considered.
DirNames ==
  { << "C", "h", ".", "5" >>,
    << "C", "h", ".", "5", ".", "5" >>,
    << "C", "h", ".", "0" >>,
    << "C", "h", ".", "9", "9", "9", "9" >>,
    << "V", "o", "l", ".", "9", " ", "E", "x", "t", "r", "a" >>,
    << "e", "x", "t", "r", "a", "s" >> }

F_a == << "a", ".", "j", "p", "g" >>

F_b == << "b", ".", "P", "N", "G" >>

F_c == << "c", ".", "t", "x", "t" >>

\* The contents a directory may have ("c.txt" is no image).
FileNames == { F_a, F_b, F_c }

FileSets == { { }, { F_a }, { F_b }, { F_a, F_b }, { F_a, F_b, F_c } }

\* Directories, and one plain file whose name carries a chapter number.
Items ==
  [name : DirNames, isdir : {TRUE}, files : FileSets]
    \cup { [name |-> << "C", "h", ".", "5" >>, isdir |-> FALSE, files |-> { }] }

\* Listings of at most MaxDirs items with distinct names.
Listings ==
  { l \in SeqsUpTo(Items, MaxDirs) :
      \A i \in 1..Len(l) : \A j \in (i + 1)..Len(l) : l[i].name # l[j].name }

\* Line 138: chapter_num is None
IsNoneMutant(chapter_num) == FALSE

IsNone(chapter_num) == ~chapter_num.ok

\* Leaving `with tempfile.TemporaryDirectory() as temp_dir`, normally or by
\* an exception: whether the directory exists afterwards.
TemporaryDirectoryExitMutant(exists) == exists

TemporaryDirectoryExit(exists) == FALSE

CombineInit ==
  /\ cpc = "start"
  /\ manga_dir \in Listings
  /\ chapter_dirs = << >>
  /\ cidx = 1
  /\ temp_exists = FALSE
  /\ temp_dir = << >>
  /\ output_cbz = << >>
  /\ output_state = "absent"
  /\ warnings = << >>
  /\ SplitIdle /\ ExtIdle /\ FetchIdle /\ ListIdle

\* combine_chapters up to the for loop: no directory raises; otherwise the
\* scratch directory is created.
CombineStart ==
  /\ cpc = "start"
  /\ chapter_dirs' = GetChapterDirectories(manga_dir)
  /\ IF chapter_dirs' = << >>
     THEN cpc' = "raised" /\ UNCHANGED temp_exists
     ELSE cpc' = "loop" /\ temp_exists' = TRUE
  /\ cidx' = 1
  /\ UNCHANGED << manga_dir, temp_dir, output_cbz, output_state, warnings >>
  /\ CombineOnly

\* One iteration of the for loop: a warning for a name without a chapter
\* number, process_chapter otherwise.
CombineChapter ==
  /\ cpc = "loop"
  /\ cidx <= Len(chapter_dirs)
  /\ LET chapter_dir_name == chapter_dirs[cidx]
         chapter_num == ExtractChapterNumber(chapter_dir_name)
     IN  IF IsNone(chapter_num)
         THEN /\ warnings' = Append(warnings, chapter_dir_name)
              /\ UNCHANGED temp_dir
         ELSE /\ temp_dir' = ProcessChapter(temp_dir, ItemOf(manga_dir, chapter_dir_name),
                                            ChapterNumStr(chapter_num))
              /\ UNCHANGED warnings
  /\ cidx' = cidx + 1
  /\ UNCHANGED << cpc, manga_dir, chapter_dirs, temp_exists, output_cbz, output_state >>
  /\ CombineOnly

\* A copy in process_chapter raises: the with block removes the scratch
\* directory and the exception leaves combine_chapters.
CombineCopyRaises ==
  /\ cpc = "loop"
  /\ cidx <= Len(chapter_dirs)
  /\ ExtractChapterNumber(chapter_dirs[cidx]).ok
  /\ \E f \in ItemOf(manga_dir, chapter_dirs[cidx]).files : IsImage(f)
  /\ temp_exists' = TemporaryDirectoryExit(temp_exists)
  /\ temp_dir' = << >>
  /\ cpc' = "raised"
  /\ UNCHANGED << manga_dir, chapter_dirs, cidx, output_cbz, output_state, warnings >>
  /\ CombineOnly

\* After the loop: the output archive is written from the sorted scratch
\* files, then the scratch directory is removed.
CombineZip ==
  /\ cpc = "loop"
  /\ cidx > Len(chapter_dirs)
  /\ output_cbz' = ZipEntries(temp_dir)
  /\ output_state' = "complete"
  /\ temp_exists' = TemporaryDirectoryExit(temp_exists)
  /\ temp_dir' = << >>
  /\ cpc' = "done"
  /\ UNCHANGED << manga_dir, chapter_dirs, cidx, warnings >>
  /\ CombineOnly

\* Opening or writing the output archive raises after some entries: the
\* scratch directory is removed and the exception leaves combine_chapters.
CombineZipRaises ==
  /\ cpc = "loop"
  /\ cidx > Len(chapter_dirs)
  /\ \E k \in 0..Len(ZipEntries(temp_dir)) :
        /\ k < Len(ZipEntries(temp_dir)) \/ k = 0
        /\ output_cbz' = SubSeq(ZipEntries(temp_dir), 1, k)
        /\ output_state' = IF k = 0 THEN output_state ELSE "partial"
  /\ temp_exists' = TemporaryDirectoryExit(temp_exists)
  /\ temp_dir' = << >>
  /\ cpc' = "raised"
  /\ UNCHANGED << manga_dir, chapter_dirs, cidx, warnings >>
  /\ CombineOnly

CombineNext ==
  \/ CombineStart
  \/ CombineChapter
  \/ CombineCopyRaises
  \/ CombineZip
  \/ CombineZipRaises


(***************************************************************************)
(* Claims about the directory combiner.                                    *)
(***************************************************************************)
\* The chapter directories of the tree whose name gives a chapter number.
ParseableDirs ==
  { i \in 1..Len(manga_dir) :
      manga_dir[i].isdir /\ ExtractChapterNumber(manga_dir[i].name).ok }

\* The recognized images of those directories.
RecognizedImages ==
  UNION { { [dir |-> manga_dir[i].name, file |-> f] :
              f \in { g \in manga_dir[i].files : IsImage(g) } } : i \in ParseableDirs }

\* The page index of an image: its place among its directory's images.
PageIndex(img) ==
  Cardinality({ f \in ItemOf(manga_dir, img.dir).files :
                  IsImage(f) /\ (f = img.file \/ LexLess(f, img.file)) })

\* C8 as stated: for every tree, the archive the directory combiner writes has
\* exactly one entry per recognized image of every directory with a
\* parseable name, none from any other directory, ordered by chapter key and
\* then page, each named <key, zero-filled to 4 digits>_<3-digit page
\* index><ext>.
C8_ExactlyTheImages ==
  cpc = "done" =>
    /\ \A img \in RecognizedImages :
         Cardinality({ i \in 1..Len(output_cbz) : output_cbz[i].src = img }) = 1
    /\ \A i \in 1..Len(output_cbz) : output_cbz[i].src \in RecognizedImages
    /\ \A i \in 1..Len(output_cbz) : \A j \in (i + 1)..Len(output_cbz) :
         LET a == output_cbz[i].src
             b == output_cbz[j].src
             ka == ExtractChapterNumber(a.dir)
             kb == ExtractChapterNumber(b.dir)
         IN  \/ KeyLess(ka, kb)
             \/ ka = kb /\ PageIndex(a) <= PageIndex(b)
    /\ \A i \in 1..Len(output_cbz) :
         LET img == output_cbz[i].src
             k == ExtractChapterNumber(img.dir)
         IN  output_cbz[i].name = NewName(ChapterNumStr(k), PageIndex(img), img.file)

\* C9 as stated: for any two chapter keys k1 < k2 that extract_chapter_number
\* returns, the zero-filled width-4 forms of int(k1) and int(k2) compare as
\* strings in the same strict order, so the archive, written in name order, is
\* in chapter key order.
C9_PaddedOrderAgrees ==
  cpc = "done" =>
    /\ \A i \in ParseableDirs : \A j \in ParseableDirs :
         LET ki == ExtractChapterNumber(manga_dir[i].name)
             kj == ExtractChapterNumber(manga_dir[j].name)
         IN  KeyLess(ki, kj) => LexLess(ChapterNumStr(ki), ChapterNumStr(kj))
    /\ \A i \in 1..Len(output_cbz) : \A j \in (i + 1)..Len(output_cbz) :
         ~KeyLess(ExtractChapterNumber(output_cbz[j].src.dir),
                  ExtractChapterNumber(output_cbz[i].src.dir))

(***************************************************************************)
(* downloader.py: file names and the functions on them.                    *)
(***************************************************************************)

\* Most chapters get_chapters returns in one run, and pages of a chapter.
MaxChapters == 3

MaxPages == 2

S_Chapter == << "C", "h", "a", "p", "t", "e", "r", "_" >>

S_cbz == << ".", "c", "b", "z" >>

S_combined_cbz == << "_", "c", "o", "m", "b", "i", "n", "e", "d" >> \o S_cbz

S_jpg == << ".", "j", "p", "g" >>

CoverName == << "c", "o", "v", "e", "r" >> \o S_jpg

MetadataJson ==
  << "m", "a", "n", "g", "a", "_", "m", "e", "t", "a", "d", "a", "t", "a",
     ".", "j", "s", "o", "n" >>

StatsName ==
  << "d", "o", "w", "n", "l", "o", "a", "d", "_", "s", "t", "a", "t", "s",
     ".", "j", "s", "o", "n" >>

MetadataTxt == << "m", "e", "t", "a", "d", "a", "t", "a", ".", "t", "x", "t" >>

\* sanitize_filename(metadata["title"]) of the manga that is fetched.
SafeTitle == << "T" >>

\* f"{safe_title}_combined.cbz"
CombinedName == SafeTitle \o S_combined_cbz

\* The chapter label the API gives a chapter without a number (JSON null).
NoneLabel == << "None" >>

\* float(chapter_number) of a label written as digits with an optional
\* fraction; any other label, None included, makes float() raise.
FloatOf(label) ==
  LET a   == RunEnd(label, 1, Digits)
      dot == HasAt(label, a, << "." >>)
      b   == IF dot THEN RunEnd(label, a + 1, Digits) ELSE a
      int == SubSeq(label, 1, a - 1)
      frc == IF dot THEN SubSeq(label, a + 1, b - 1) ELSE << >>
  IN  IF b = Len(label) + 1 /\ Len(int) + Len(frc) > 0
      THEN [ok |-> TRUE, n |-> DigitsToInt(int \o frc), d |-> Pow10(Len(frc))]
      ELSE NoKey

\* format(x, "03.1f") of a value with at most one fractional digit: the
\* integer part, a dot and one digit (never shorter than the width 3).
FormatF1(x) ==
  IntToDigits(x.n \div x.d) \o << "." >> \o IntToDigits(((10 * x.n) \div x.d) % 10)

\* chapter_title = f"Chapter_{float(chapter_number):03.1f}"
ChapterTitle(label) == S_Chapter \o FormatF1(FloatOf(label))

\* f"{chapter_title}.cbz"
CbzName(label) == ChapterTitle(label) \o S_cbz

\* file.endswith('.cbz') and not file.endswith('_combined.cbz')
IsChapterArchiveMutant(file) == EndsWith(file, S_cbz)

IsChapterArchive(file) == EndsWith(file, S_cbz) /\ ~EndsWith(file, S_combined_cbz)

\* re.match(r'Chapter_(\d+\.?\d*)', file): whether it matches, and group 1.
DownloadedLabel(file) ==
  IF HasAt(file, 1, S_Chapter) /\ ClassAt(file, Len(S_Chapter) + 1, Digits)
  THEN LET s == Len(S_Chapter) + 1
           a == RunEnd(file, s, Digits)
           b == IF HasAt(file, a, << "." >>) THEN RunEnd(file, a + 1, Digits) ELSE a
       IN  [ok |-> TRUE, label |-> SubSeq(file, s, b - 1)]
  ELSE [ok |-> FALSE, label |-> << >>]

GetDownloadedChapters(dir) ==
  { DownloadedLabel(f).label :
      f \in { g \in dir : IsChapterArchive(g) /\ DownloadedLabel(g).ok } }

\* os.path.splitext(f)[0]
SplitRoot(f) == SubSeq(f, 1, Len(f) - Len(SplitExt(f)))

\* re.match(r'Chapter_(\d+)(?:\.(\d+))?', chapter_name): whether it matches,
\* group 1, and group 2 (empty when the optional part does not match).
ChapterMatch(chapter_name) ==
  IF HasAt(chapter_name, 1, S_Chapter) /\ ClassAt(chapter_name, Len(S_Chapter) + 1, Digits)
  THEN LET s == Len(S_Chapter) + 1
           a == RunEnd(chapter_name, s, Digits)
           b == IF HasAt(chapter_name, a, << "." >>) /\ ClassAt(chapter_name, a + 1, Digits)
                THEN RunEnd(chapter_name, a + 1, Digits) ELSE a
       IN  [ok |-> TRUE, main |-> SubSeq(chapter_name, s, a - 1),
            decimal |-> IF b > a THEN SubSeq(chapter_name, a + 1, b - 1) ELSE << >>]
  ELSE [ok |-> FALSE, main |-> << >>, decimal |-> << >>]

\* extract_chapter: chapter_num = f"{int(main_num):03d}.{decimal_part}"
ChapterNum(file) ==
  LET m == ChapterMatch(SplitRoot(file))
  IN  ZeroPad(DigitsToInt(m.main), 3) \o << "." >>
        \o (IF m.decimal = << >> THEN << "0" >> ELSE m.decimal)

\* extract_chapter: the files it writes for an archive with these entries.
ExtractChapter(file, entries) ==
  { ChapterNum(file) \o SplitRoot(e) \o SplitExt(e) :
      e \in { x \in Range(entries) : Lower(x) # MetadataTxt } }

\* combine_chapters: what one chapter adds to the output archive.
MergedEntries(file, entries) ==
  LET names == SetToSortedSeq({ n \in ExtractChapter(file, entries) : Lower(n) # MetadataTxt })
  IN  [k \in 1..Len(names) |-> [name |-> names[k], from |-> file]]

\* get_chapter_files: chapter_key
ChapterKey(filename) ==
  LET m == ChapterMatch(SplitRoot(filename))
  IN  IF m.ok THEN << DigitsToInt(m.main), DigitsToInt(m.decimal) >> ELSE << 0, 0 >>

\* Python's order on the key tuples.
ChapterKeyLess(a, b) == a[1] < b[1] \/ (a[1] = b[1] /\ a[2] < b[2])

\* download_chapter: f"{i:03d}.jpg" for the pages 0 .. n-1
PageNames(n) == [k \in 1..n |-> ZeroPad(k - 1, 3) \o S_jpg]

\* create_cbz: the sorted files of image_dir, then metadata.txt
CbzEntries(n) == SortStrings(PageNames(n)) \o << MetadataTxt >>

(***************************************************************************)
(* downloader.py: main.                                                    *)
(***************************************************************************)

L_5 == << "5" >>

L_5_5 == << "5", ".", "5" >>

L_6 == << "6" >>

L_7 == << "7" >>

\* The chapters of the remote listing, in the order the API returns them:
\* the label and the name of the scanlation group ("none": no such
\* relationship).
RemoteChapters ==
  << [label |-> L_5, group |-> "A"],
     [label |-> L_5_5, group |-> "B"],
     [label |-> L_6, group |-> "A"],
     [label |-> L_7, group |-> "none"],
     [label |-> NoneLabel, group |-> "B"] >>

\* What get_chapters can return: one chapter per label, in listing order.
ChapterLists ==
  { [k \in 1..Len(pick) |-> RemoteChapters[pick[k]]] :
      pick \in { q \in SeqsUpTo(1..Len(RemoteChapters), MaxChapters) :
                   \A k \in 1..(Len(q) - 1) : q[k] < q[k + 1] } }

\* What earlier runs can have left in the manga folder.
PriorFiles ==
  { CbzName(L_5), CbzName(L_5_5), CbzName(L_6), CombinedName, CoverName, StatsName }

\* The entries of a per-chapter archive left by an earlier run.
PriorEntries == CbzEntries(1)

\* The archives of a folder, each with the entries of an earlier run.
PriorCbz(dir) == [f \in { g \in dir : IsChapterArchive(g) } |-> PriorEntries]

NoStats == [kind |-> "absent"]

CorruptStats == [kind |-> "corrupt"]

\* A statistics file an earlier run wrote.
PriorStats ==
  [kind |-> "dict", total_chapters |-> 1,
   chapters |-> << [chapter_number |-> L_5_5, pages |-> 1, scanlation_group |-> "B"] >>,
   total_download_time |-> 1, total_bytes |-> 1,
   average_speed |-> [n |-> 1, d |-> 1],
   scanlation_groups |-> { "B" }, groups_type |-> "list"]

NoExc == [site |-> "none", i |-> 0]

\* json.dump accepts a dict whose values are lists, not one holding a set.
JsonSerializable(stats) == stats.groups_type = "list"

\* main, lines 566-587: the fresh record, with the totals, the chapter
\* entries and the group names of an existing statistics file that loads.
InitialStats(total_chapters, file) ==
  LET loaded == file.kind = "dict"
  IN  [kind |-> "dict", total_chapters |-> total_chapters,
       chapters |-> IF loaded THEN file.chapters ELSE << >>,
       total_download_time |-> IF loaded THEN file.total_download_time ELSE 0,
       total_bytes |-> IF loaded THEN file.total_bytes ELSE 0,
       average_speed |-> [n |-> 0, d |-> 1],
       scanlation_groups |-> IF loaded THEN file.scanlation_groups ELSE { },
       groups_type |-> "set"]

\* main, lines 619-641: the record after a chapter of n pages, each page one
\* byte and the chapter one unit of time.
StatsWithChapter(stats, ch, n) ==
  LET scanlation_group == IF ch.group = "none" THEN "Unknown" ELSE ch.group
  IN  [stats EXCEPT
         !.total_download_time = @ + 1,
         !.total_bytes = @ + n,
         !.scanlation_groups = IF ch.group = "none" THEN @ ELSE @ \cup { scanlation_group },
         !.chapters = Append(@, [chapter_number |-> ch.label, pages |-> n,
                                 scanlation_group |-> scanlation_group])]

\* main, lines 651-656: the average speed and the set turned into a list.
FinalStats(stats) ==
  [stats EXCEPT
     !.average_speed = IF stats.total_download_time > 0
                       THEN [n |-> stats.total_bytes, d |-> stats.total_download_time]
                       ELSE @,
     !.groups_type = "list"]

\* The except block of main: whether it removes the folder. The folder is
\* output_base once line 507 has run, which every site but the search is past.
CleanupAppliesMutant(site, exists) == FALSE

CleanupAppliesAlwaysMutant(site, exists) == exists

CleanupApplies(site, exists) == site # "search" /\ exists

FetchInit ==
  /\ SplitIdle /\ ExtIdle /\ CombIdle /\ ListIdle
  /\ mpc = "start"
  /\ folder_exists \in BOOLEAN
  /\ folder \in SUBSET PriorFiles
  /\ folder_exists = FALSE => folder = { }
  /\ folder0 = folder
  /\ cbz = PriorCbz(folder)
  /\ stats_file \in { NoStats, PriorStats, CorruptStats }
  /\ stats_file = NoStats <=> StatsName \notin folder
  /\ downloaded_chapters = { }
  /\ resume_choice = "none"
  /\ chapters = << >>
  /\ ch_i = 1
  /\ page = 0
  /\ download_stats = NoStats
  /\ exc = NoExc
  /\ env_failed = FALSE
  /\ user_quit = FALSE
  /\ cleanup_failed = FALSE
  /\ started = << >>
  /\ skipped = << >>
  /\ chapter_files = << >>
  /\ midx = 1
  /\ mtemp_exists = FALSE
  /\ combined = << >>

\* An exception raised at a site of main: control goes to the except block.
Raise(site, failed) ==
  /\ mpc' = "except"
  /\ exc' = [site |-> site, i |-> ch_i]
  /\ env_failed' = (env_failed \/ failed)

\* Lines 496-499: the search and the metadata.
MainSearch ==
  /\ mpc = "start"
  /\ mpc' = "mkdirs"
  /\ UNCHANGED << folder_exists, folder, folder0, cbz, stats_file, downloaded_chapters,
                  resume_choice, chapters, ch_i, page, download_stats, exc, env_failed,
                  user_quit, cleanup_failed, started, skipped, chapter_files, midx,
                  mtemp_exists, combined >>
  /\ FetchOnly

MainSearchRaises ==
  /\ mpc = "start"
  /\ Raise("search", TRUE)
  /\ UNCHANGED << folder_exists, folder, folder0, cbz, stats_file, downloaded_chapters,
                  resume_choice, chapters, ch_i, page, download_stats,
                  user_quit, cleanup_failed, started, skipped, chapter_files, midx,
                  mtemp_exists, combined >>
  /\ FetchOnly

\* Lines 502-512: the folder is created if need be and scanned.
MainMakeDirs ==
  /\ mpc = "mkdirs"
  /\ folder_exists' = TRUE
  /\ downloaded_chapters' = GetDownloadedChapters(folder)
  /\ mpc' = IF GetDownloadedChapters(folder) # { } THEN "resume_prompt" ELSE "metadata"
  /\ UNCHANGED << folder, folder0, cbz, stats_file,
                  resume_choice, chapters, ch_i, page, download_stats, exc, env_failed,
                  user_quit, cleanup_failed, started, skipped, chapter_files, midx,
                  mtemp_exists, combined >>
  /\ FetchOnly

\* Lines 517-531: one answer at the resume prompt.
MainResumePrompt ==
  /\ mpc = "resume_prompt"
  /\ \E choice \in { "1", "2", "3", "other" } :
       /\ mpc' = CASE choice = "other" -> "resume_prompt"
                   [] choice = "3" -> "returned"
                   [] OTHER -> "metadata"
       /\ resume_choice' = IF choice = "other" THEN resume_choice ELSE choice
       /\ user_quit' = (user_quit \/ choice = "3")
       /\ folder' = IF choice = "2" THEN { f \in folder : ~IsChapterArchive(f) } ELSE folder
       /\ cbz' = IF choice = "2" THEN << >> ELSE cbz
       /\ downloaded_chapters' = IF choice = "2" THEN { } ELSE downloaded_chapters
  /\ UNCHANGED << folder_exists, folder0, stats_file,
                  chapters, ch_i, page, download_stats, exc, env_failed,
                  cleanup_failed, started, skipped, chapter_files, midx,
                  mtemp_exists, combined >>
  /\ FetchOnly

\* Lines 534-535: manga_metadata.json is written.
MainWriteMetadata ==
  /\ mpc = "metadata"
  /\ folder' = folder \cup { MetadataJson }
  /\ mpc' = "cover"
  /\ UNCHANGED << folder_exists, folder0, cbz, stats_file, downloaded_chapters,
                  resume_choice, chapters, ch_i, page, download_stats, exc, env_failed,
                  user_quit, cleanup_failed, started, skipped, chapter_files, midx,
                  mtemp_exists, combined >>
  /\ FetchOnly

\* Lines 538-542 and download_cover: nothing if cover.jpg is there, else the
\* cover is saved or the cover listing is empty.
MainCover ==
  /\ mpc = "cover"
  /\ \E listed \in BOOLEAN :
       folder' = IF CoverName \notin folder /\ listed THEN folder \cup { CoverName } ELSE folder
  /\ mpc' = "availability"
  /\ UNCHANGED << folder_exists, folder0, cbz, stats_file, downloaded_chapters,
                  resume_choice, chapters, ch_i, page, download_stats, exc, env_failed,
                  user_quit, cleanup_failed, started, skipped, chapter_files, midx,
                  mtemp_exists, combined >>
  /\ FetchOnly

\* download_cover, lines 140-141: the cover listing request fails.
MainCoverRaises ==
  /\ mpc = "cover"
  /\ CoverName \notin folder
  /\ Raise("cover", TRUE)
  /\ UNCHANGED << folder_exists, folder, folder0, cbz, stats_file, downloaded_chapters,
                  resume_choice, chapters, ch_i, page, download_stats,
                  user_quit, cleanup_failed, started, skipped, chapter_files, midx,
                  mtemp_exists, combined >>
  /\ FetchOnly

\* Line 545: check_chapter_availability returns a list, empty or not.
MainAvailability ==
  /\ mpc = "availability"
  /\ \E missing \in BOOLEAN : mpc' = IF missing THEN "availability_prompt" ELSE "get_chapters"
  /\ UNCHANGED << folder_exists, folder, folder0, cbz, stats_file, downloaded_chapters,
                  resume_choice, chapters, ch_i, page, download_stats, exc, env_failed,
                  user_quit, cleanup_failed, started, skipped, chapter_files, midx,
                  mtemp_exists, combined >>
  /\ FetchOnly

MainAvailabilityRaises ==
  /\ mpc = "availability"
  /\ Raise("availability", TRUE)
  /\ UNCHANGED << folder_exists, folder, folder0, cbz, stats_file, downloaded_chapters,
                  resume_choice, chapters, ch_i, page, download_stats,
                  user_quit, cleanup_failed, started, skipped, chapter_files, midx,
                  mtemp_exists, combined >>
  /\ FetchOnly

\* Lines 547-555: one answer at the continue prompt.
MainAvailabilityPrompt ==
  /\ mpc = "availability_prompt"
  /\ \E choice \in { "y", "n", "other" } :
       /\ mpc' = CASE choice = "y" -> "get_chapters"
                   [] choice = "n" -> "returned"
                   [] OTHER -> "availability_prompt"
       /\ user_quit' = (user_quit \/ choice = "n")
  /\ UNCHANGED << folder_exists, folder, folder0, cbz, stats_file, downloaded_chapters,
                  resume_choice, chapters, ch_i, page, download_stats, exc, env_failed,
                  cleanup_failed, started, skipped, chapter_files, midx,
                  mtemp_exists, combined >>
  /\ FetchOnly

\* Lines 558-587: the chapters are listed; with none main returns, else the
\* statistics record is set up.
MainGetChapters ==
  /\ mpc = "get_chapters"
  /\ \E selected \in ChapterLists :
       /\ chapters' = selected
       /\ mpc' = IF Len(selected) = 0 THEN "returned" ELSE "loop"
       /\ download_stats' = IF Len(selected) = 0 THEN download_stats
                            ELSE InitialStats(Len(selected), stats_file)
  /\ ch_i' = 1
  /\ UNCHANGED << folder_exists, folder, folder0, cbz, stats_file, downloaded_chapters,
                  resume_choice, page, exc, env_failed,
                  user_quit, cleanup_failed, started, skipped, chapter_files, midx,
                  mtemp_exists, combined >>
  /\ FetchOnly

MainGetChaptersRaises ==
  /\ mpc = "get_chapters"
  /\ Raise("get_chapters", TRUE)
  /\ UNCHANGED << folder_exists, folder, folder0, cbz, stats_file, downloaded_chapters,
                  resume_choice, chapters, ch_i, page, download_stats,
                  user_quit, cleanup_failed, started, skipped, chapter_files, midx,
                  mtemp_exists, combined >>
  /\ FetchOnly

\* Lines 589-602: the head of the for loop. float() raises on a label that
\* is no number; a label in downloaded_chapters is skipped.
ChapterBegin ==
  /\ mpc = "loop"
  /\ ch_i <= Len(chapters)
  /\ LET chapter_number == chapters[ch_i].label
     IN  IF ~FloatOf(chapter_number).ok
         THEN /\ Raise("float", FALSE)
              /\ UNCHANGED << ch_i, started, skipped >>
         ELSE IF chapter_number \in downloaded_chapters
         THEN /\ skipped' = Append(skipped, chapter_number)
              /\ ch_i' = ch_i + 1
              /\ UNCHANGED << mpc, exc, env_failed, started >>
         ELSE /\ started' = Append(started, chapter_number)
              /\ mpc' = "at_home"
              /\ UNCHANGED << ch_i, exc, env_failed, skipped >>
  /\ UNCHANGED << folder_exists, folder, folder0, cbz, stats_file, downloaded_chapters,
                  resume_choice, chapters, page, download_stats,
                  user_quit, cleanup_failed, chapter_files, midx,
                  mtemp_exists, combined >>
  /\ FetchOnly

\* download_chapter, lines 281-287: the at-home request, then image_dir.
DownloadAtHome ==
  /\ mpc = "at_home"
  /\ folder' = folder \cup { ChapterTitle(chapters[ch_i].label) }
  /\ page' = 0
  /\ mpc' = "pages"
  /\ UNCHANGED << folder_exists, folder0, cbz, stats_file, downloaded_chapters,
                  resume_choice, chapters, ch_i, download_stats, exc, env_failed,
                  user_quit, cleanup_failed, started, skipped, chapter_files, midx,
                  mtemp_exists, combined >>
  /\ FetchOnly

DownloadAtHomeRaises ==
  /\ mpc = "at_home"
  /\ Raise("at_home", TRUE)
  /\ UNCHANGED << folder_exists, folder, folder0, cbz, stats_file, downloaded_chapters,
                  resume_choice, chapters, ch_i, page, download_stats,
                  user_quit, cleanup_failed, started, skipped, chapter_files, midx,
                  mtemp_exists, combined >>
  /\ FetchOnly

\* download_chapter, lines 289-297: one page is fetched and written.
DownloadPage ==
  /\ mpc = "pages"
  /\ page < MaxPages
  /\ page' = page + 1
  /\ UNCHANGED << mpc, folder_exists, folder, folder0, cbz, stats_file, downloaded_chapters,
                  resume_choice, chapters, ch_i, download_stats, exc, env_failed,
                  user_quit, cleanup_failed, started, skipped, chapter_files, midx,
                  mtemp_exists, combined >>
  /\ FetchOnly

DownloadPageRaises ==
  /\ mpc = "pages"
  /\ page < MaxPages
  /\ Raise("page", TRUE)
  /\ UNCHANGED << folder_exists, folder, folder0, cbz, stats_file, downloaded_chapters,
                  resume_choice, chapters, ch_i, page, download_stats,
                  user_quit, cleanup_failed, started, skipped, chapter_files, midx,
                  mtemp_exists, combined >>
  /\ FetchOnly

\* Lines 612-614: create_cbz writes the chapter's archive, image_dir is removed.
CreateCbz ==
  /\ mpc = "pages"
  /\ page = MaxPages
  /\ LET label == chapters[ch_i].label
     IN  /\ folder' = (folder \cup { CbzName(label) }) \ { ChapterTitle(label) }
         /\ cbz' = [f \in DOMAIN cbz \cup { CbzName(label) } |->
                      IF f = CbzName(label) THEN CbzEntries(page) ELSE cbz[f]]
  /\ mpc' = "save_stats"
  /\ UNCHANGED << folder_exists, folder0, stats_file, downloaded_chapters,
                  resume_choice, chapters, ch_i, page, download_stats, exc, env_failed,
                  user_quit, cleanup_failed, started, skipped, chapter_files, midx,
                  mtemp_exists, combined >>
  /\ FetchOnly

\* create_cbz raises after it opened the archive for writing.
CreateCbzRaises ==
  /\ mpc = "pages"
  /\ page = MaxPages
  /\ LET label == chapters[ch_i].label
     IN  /\ folder' = folder \cup { CbzName(label) }
         /\ cbz' = [f \in DOMAIN cbz \cup { CbzName(label) } |->
                      IF f = CbzName(label) THEN << >> ELSE cbz[f]]
  /\ Raise("create_cbz", TRUE)
  /\ UNCHANGED << folder_exists, folder0, stats_file, downloaded_chapters,
                  resume_choice, chapters, ch_i, page, download_stats,
                  user_quit, cleanup_failed, started, skipped, chapter_files, midx,
                  mtemp_exists, combined >>
  /\ FetchOnly

\* Lines 619-649: the record takes the chapter in and is dumped to
\* download_stats.json, which open(..., "w") has emptied; a record json.dump
\* cannot serialize leaves the file cut short and raises TypeError.
SaveChapterStats ==
  /\ mpc = "save_stats"
  /\ LET stats == StatsWithChapter(download_stats, chapters[ch_i], page)
     IN  /\ download_stats' = stats
         /\ folder' = folder \cup { StatsName }
         /\ IF JsonSerializable(stats)
            THEN /\ stats_file' = stats
                 /\ ch_i' = ch_i + 1
                 /\ mpc' = "loop"
                 /\ UNCHANGED << exc, env_failed >>
            ELSE /\ stats_file' = CorruptStats
                 /\ Raise("save_stats", FALSE)
                 /\ UNCHANGED ch_i
  /\ UNCHANGED << folder_exists, folder0, cbz, downloaded_chapters,
                  resume_choice, chapters, page,
                  user_quit, cleanup_failed, started, skipped, chapter_files, midx,
                  mtemp_exists, combined >>
  /\ FetchOnly

\* Lines 651-660: after the loop the final record is written.
MainFinalStats ==
  /\ mpc = "loop"
  /\ ch_i > Len(chapters)
  /\ download_stats' = FinalStats(download_stats)
  /\ stats_file' = FinalStats(download_stats)
  /\ folder' = folder \cup { StatsName }
  /\ mpc' = "combine"
  /\ UNCHANGED << folder_exists, folder0, cbz, downloaded_chapters,
                  resume_choice, chapters, ch_i, page, exc, env_failed,
                  user_quit, cleanup_failed, started, skipped, chapter_files, midx,
                  mtemp_exists, combined >>
  /\ FetchOnly

(***************************************************************************)
(* downloader.py: combine_chapters, called by main with the manga folder   *)
(* and <folder>/<title>_combined.cbz.                                      *)
(***************************************************************************)

\* Lines 431-445: the .cbz files of the folder, sorted as strings; with none
\* it raises, else the scratch directory and the output archive are created.
MergeList ==
  /\ mpc = "combine"
  /\ LET found == SetToSortedSeq({ f \in folder : EndsWith(f, S_cbz) })
     IN  /\ chapter_files' = found
         /\ IF found = << >>
            THEN /\ Raise("no_chapter_files", FALSE)
                 /\ UNCHANGED << folder, mtemp_exists, combined >>
            ELSE /\ mtemp_exists' = TRUE
                 /\ folder' = folder \cup { CombinedName }
                 /\ combined' = << >>
                 /\ mpc' = "combine_loop"
                 /\ UNCHANGED << exc, env_failed >>
  /\ midx' = 1
  /\ UNCHANGED << folder_exists, folder0, cbz, stats_file, downloaded_chapters,
                  resume_choice, chapters, ch_i, page, download_stats,
                  user_quit, cleanup_failed, started, skipped >>
  /\ FetchOnly

\* Lines 447-462: one archive is extracted and its files are added to the
\* output; extract_chapter raises on a name without a chapter number, and
\* leaving the with blocks removes the scratch directory.
MergeChapter ==
  /\ mpc = "combine_loop"
  /\ midx <= Len(chapter_files)
  /\ LET chapter_file == chapter_files[midx]
     IN  IF ChapterMatch(SplitRoot(chapter_file)).ok
         THEN /\ combined' = combined \o MergedEntries(chapter_file,
                                 IF chapter_file \in DOMAIN cbz THEN cbz[chapter_file] ELSE << >>)
              /\ midx' = midx + 1
              /\ UNCHANGED << mpc, exc, env_failed, mtemp_exists >>
         ELSE /\ Raise("extract_chapter", FALSE)
              /\ mtemp_exists' = TemporaryDirectoryExit(mtemp_exists)
              /\ UNCHANGED << midx, combined >>
  /\ UNCHANGED << folder_exists, folder, folder0, cbz, stats_file, downloaded_chapters,
                  resume_choice, chapters, ch_i, page, download_stats,
                  user_quit, cleanup_failed, started, skipped, chapter_files >>
  /\ FetchOnly

\* Reading an archive or writing the output fails.
MergeChapterRaises ==
  /\ mpc = "combine_loop"
  /\ midx <= Len(chapter_files)
  /\ Raise("combine_io", TRUE)
  /\ mtemp_exists' = TemporaryDirectoryExit(mtemp_exists)
  /\ UNCHANGED << folder_exists, folder, folder0, cbz, stats_file, downloaded_chapters,
                  resume_choice, chapters, ch_i, page, download_stats,
                  user_quit, cleanup_failed, started, skipped, chapter_files, midx,
                  combined >>
  /\ FetchOnly

\* The loop is over: the with blocks are left and combine_chapters returns.
MergeReturn ==
  /\ mpc = "combine_loop"
  /\ midx > Len(chapter_files)
  /\ mtemp_exists' = TemporaryDirectoryExit(mtemp_exists)
  /\ mpc' = "combined"
  /\ UNCHANGED << folder_exists, folder, folder0, cbz, stats_file, downloaded_chapters,
                  resume_choice, chapters, ch_i, page, download_stats, exc, env_failed,
                  user_quit, cleanup_failed, started, skipped, chapter_files, midx,
                  combined >>
  /\ FetchOnly

\* main, lines 668-672: the per-chapter archives are deleted.
MainDeleteChapterArchives ==
  /\ mpc = "combined"
  /\ folder' = { f \in folder : ~IsChapterArchive(f) }
  /\ cbz' = << >>
  /\ mpc' = "done"
  /\ UNCHANGED << folder_exists, folder0, stats_file, downloaded_chapters,
                  resume_choice, chapters, ch_i, page, download_stats, exc, env_failed,
                  user_quit, cleanup_failed, started, skipped, chapter_files, midx,
                  mtemp_exists, combined >>
  /\ FetchOnly

\* main, lines 674-683: the except block removes the folder, if there is
\* one, and raises again.
MainExcept ==
  /\ mpc = "except"
  /\ IF CleanupApplies(exc.site, folder_exists)
     THEN /\ folder_exists' = FALSE
          /\ folder' = { }
          /\ cbz' = << >>
          /\ stats_file' = NoStats
     ELSE UNCHANGED << folder_exists, folder, cbz, stats_file >>
  /\ mpc' = "raised"
  /\ UNCHANGED << folder0, downloaded_chapters,
                  resume_choice, chapters, ch_i, page, download_stats, exc, env_failed,
                  user_quit, cleanup_failed, started, skipped, chapter_files, midx,
                  mtemp_exists, combined >>
  /\ FetchOnly

\* Lines 679-683: shutil.rmtree raises; the error is printed and the first
\* exception is raised again. The removal stops at the first file, at the
\* last one, or at the emptied directory itself.
MainExceptCleanupFails ==
  /\ mpc = "except"
  /\ CleanupApplies(exc.site, folder_exists)
  /\ \E kept \in { folder, { } } \cup { { f } : f \in folder } :
       /\ folder' = kept
       /\ cbz' = [f \in { g \in kept : IsChapterArchive(g) } |-> cbz[f]]
       /\ stats_file' = IF StatsName \in kept THEN stats_file ELSE NoStats
  /\ cleanup_failed' = TRUE
  /\ mpc' = "raised"
  /\ UNCHANGED << folder_exists, folder0, downloaded_chapters,
                  resume_choice, chapters, ch_i, page, download_stats, exc, env_failed,
                  user_quit, started, skipped, chapter_files, midx,
                  mtemp_exists, combined >>
  /\ FetchOnly

FetchNext ==
  \/ MainSearch \/ MainSearchRaises \/ MainMakeDirs \/ MainResumePrompt
  \/ MainWriteMetadata \/ MainCover \/ MainCoverRaises
  \/ MainAvailability \/ MainAvailabilityRaises \/ MainAvailabilityPrompt
  \/ MainGetChapters \/ MainGetChaptersRaises
  \/ ChapterBegin \/ DownloadAtHome \/ DownloadAtHomeRaises
  \/ DownloadPage \/ DownloadPageRaises \/ CreateCbz \/ CreateCbzRaises
  \/ SaveChapterStats \/ MainFinalStats
  \/ MergeList \/ MergeChapter \/ MergeChapterRaises \/ MergeReturn
  \/ MainDeleteChapterArchives \/ MainExcept \/ MainExceptCleanupFails

(***************************************************************************)
(* combine_chapters of downloader.py on its own: any folder of archives.   *)
(***************************************************************************)

L_2 == << "2" >>

L_10 == << "1", "0" >>

\* The .cbz files a folder handed to combine_chapters can hold.
MergeFiles ==
  { CbzName(L_2), CbzName(L_5), CbzName(L_5_5), CbzName(L_10), CombinedName }

MergeInit ==
  /\ SplitIdle /\ ExtIdle /\ CombIdle /\ ListIdle
  /\ mpc = "combine"
  /\ folder_exists = TRUE
  /\ folder \in SUBSET MergeFiles
  /\ folder0 = folder
  /\ cbz \in [{ f \in folder : IsChapterArchive(f) } -> { CbzEntries(n) : n \in 1..MaxPages }]
  /\ stats_file = NoStats
  /\ downloaded_chapters = { }
  /\ resume_choice = "none"
  /\ chapters = << >>
  /\ ch_i = 1
  /\ page = 0
  /\ download_stats = NoStats
  /\ exc = NoExc
  /\ env_failed = FALSE
  /\ user_quit = FALSE
  /\ cleanup_failed = FALSE
  /\ started = << >>
  /\ skipped = << >>
  /\ chapter_files = << >>
  /\ midx = 1
  /\ mtemp_exists = FALSE
  /\ combined = << >>

MergeNext == MergeList \/ MergeChapter \/ MergeChapterRaises \/ MergeReturn

(***************************************************************************)
(* Claims about the fetcher.                                               *)
(***************************************************************************)

\* C3: on a resumed run (resume choice 1) every chapter whose per-chapter
\* archive Chapter_<n>.cbz of an earlier run was in the manga folder is
\* skipped, and every other chapter is downloaded: no download is started
\* for a chapter whose archive was there, and no chapter is skipped whose
\* archive was not.
C3_ResumeSkipsArchived ==
  resume_choice = "1" =>
    /\ \A k \in 1..Len(started) : CbzName(started[k]) \notin folder0
    /\ \A k \in 1..Len(skipped) : CbzName(skipped[k]) \in folder0

\* The sites of the try block around one chapter (lines 604-649).
ChapterSites == { "at_home", "page", "create_cbz", "save_stats" }

\* C4 as stated: after an exception raised while a chapter was being
\* downloaded or archived, once main has exited the manga folder does not
\* exist.
C4_FolderGoneAfterAbort ==
  (exc.site \in ChapterSites /\ mpc = "raised") => ~folder_exists

\* C4, amended: an exception raised while a chapter is being downloaded or
\* archived stops the run at that chapter (no later chapter is begun),
\* main leaves by the except block and raises, and once it has exited the
\* manga folder does not exist unless the removal of the folder itself
\* raised.
C4_AbortAndBestEffortCleanup ==
  exc.site \in ChapterSites =>
    /\ mpc \in { "except", "raised" }
    /\ ch_i = exc.i
    /\ Len(started) + Len(skipped) = exc.i
    /\ mpc = "raised" => (folder_exists => cleanup_failed)

\* A page of the second chapter failed after a first page was fetched, in a
\* folder that held files of an earlier run; main has raised and the folder
\* is gone.
C4_Witness ==
  /\ mpc = "raised"
  /\ exc = [site |-> "page", i |-> 2]
  /\ page = 1
  /\ folder0 # { }
  /\ ~folder_exists
  /\ ~cleanup_failed

\* C5: the step after a chapter was downloaded and archived writes the
\* accumulated record, this chapter's entry in it, to download_stats.json
\* and goes on to the next chapter; and the step after the last chapter
\* writes the record once more.
C5_StatsWrittenAfterEachChapter ==
  [][ /\ (mpc = "save_stats" /\ mpc' # "save_stats") =>
           /\ mpc' = "loop"
           /\ ch_i' = ch_i + 1
           /\ stats_file' = download_stats'
           /\ Len(stats_file'.chapters) = Len(download_stats.chapters) + 1
      /\ (mpc = "loop" /\ mpc' = "combine") => stats_file' = download_stats'
    ]_vars

\* C6: a run in which the user never quit and no network or filesystem call
\* failed, with numeric chapter labels and at least one chapter to
\* download, does not end before finalization: when main has exited, the
\* manga folder holds <title>_combined.cbz and no per-chapter archive.
C6_RunReachesFinalization ==
  ( /\ mpc \in { "returned", "raised", "done" }
    /\ ~user_quit
    /\ ~env_failed
    /\ \A k \in 1..Len(chapters) : FloatOf(chapters[k].label).ok
    /\ \E k \in 1..Len(chapters) : chapters[k].label \notin downloaded_chapters )
  => /\ mpc = "done"
     /\ CombinedName \in folder
     /\ \A f \in folder : ~IsChapterArchive(f)

\* C13: a cover fetch that fails, by an error of the cover listing request
\* or by an empty listing, is not fatal: the step at the cover goes on to
\* the availability check and leaves the manga folder and its files in
\* place.
C13_CoverFailureNotFatal ==
  [][ mpc = "cover" =>
        /\ mpc' = "availability"
        /\ folder_exists'
        /\ folder \subseteq folder' ]_vars

\* C7: in the combined archive combine_chapters has written, for any two
\* per-chapter archives A and B with key(A) < key(B) for the (integer,
\* decimal) key of their file names, every entry taken from A precedes
\* every entry taken from B.
C7_NumericChapterOrder ==
  mpc = "combined" =>
    \A p, q \in 1..Len(combined) :
       ChapterKeyLess(ChapterKey(combined[p].from), ChapterKey(combined[q].from)) => p < q

(***************************************************************************)
(* downloader.py: get_chapters, the selection of one version per label.    *)
(***************************************************************************)

\* Most records of a listing.
MaxRecords == 3

\* A record of the listing: its chapter label, its scanlation_group
\* relationship ("none": no such relationship, "noattr": one without
\* attributes, else the group's name) and whether it has an externalUrl.
RecordValues ==
  [label : { L_5, L_6 }, rel : { "A", "B", "noattr", "none" }, external : BOOLEAN]

\* The listings the pagination loop can have accumulated.
RecordLists == SeqsUpTo(RecordValues, MaxRecords)

\* Line 181: chapter["attributes"].get("externalUrl") is truthy.
IsExternalMutant(r) == FALSE

IsExternal(r) == r.external

\* Lines 194, 234, 251: the name of the record's group.
GroupName(r) == IF r.rel = "noattr" THEN "Unknown" ELSE r.rel

\* The record has a scanlation_group relationship.
HasGroup(r) == r.rel # "none"

\* The places in recs of the records that are not external links.
Kept(recs) == { k \in 1..Len(recs) : ~IsExternal(recs[k]) }

RECURSIVE ChapterGroupsUpTo(_, _)
\* Lines 178-186: the dict after the first n records: one item per label, in
\* the order the labels first occur, with the places of its records.
ChapterGroupsUpTo(recs, n) ==
  IF n = 0 THEN << >>
  ELSE LET before == ChapterGroupsUpTo(recs, n - 1)
           chapter_num == recs[n].label
       IN  IF IsExternal(recs[n]) THEN before
           ELSE IF \E g \in 1..Len(before) : before[g].label = chapter_num
           THEN [g \in 1..Len(before) |->
                   IF before[g].label = chapter_num
                   THEN [before[g] EXCEPT !.versions = Append(@, n)]
                   ELSE before[g]]
           ELSE Append(before, [label |-> chapter_num, versions |-> << n >>])

ChapterGroups(recs) == ChapterGroupsUpTo(recs, Len(recs))

\* Lines 189-195: the group names of the grouped records.
AllGroups(recs) == { GroupName(recs[k]) : k \in { j \in Kept(recs) : HasGroup(recs[j]) } }

\* The group names in sorted order.
GroupOrder == << "A", "B", "Unknown" >>

\* Line 201: groups_list = sorted(list(all_groups))
GroupsList(groups) == SelectSeq(GroupOrder, LAMBDA g : g \in groups)

\* Line 224: the label has one version only.
SingleVersionMutant(versions) == FALSE

SingleVersion(versions) == Len(versions) = 1

\* Lines 230-239: the first version of the preferred group, 0 if none.
PreferredVersion(recs, versions, group) ==
  LET hits == { v \in 1..Len(versions) :
                  HasGroup(recs[versions[v]]) /\ GroupName(recs[versions[v]]) = group }
  IN  IF hits = { } THEN 0
      ELSE versions[CHOOSE v \in hits : \A w \in hits : v <= w]

SelectInit ==
  /\ SplitIdle /\ ExtIdle /\ CombIdle /\ FetchIdle
  /\ gpc = "group"
  /\ offset = 0
  /\ fetched = 0
  /\ resp_total = 0
  /\ offsets = << >>
  /\ records \in RecordLists
  /\ chapter_groups = << >>
  /\ all_groups = { }
  /\ preferred_group = "none"
  /\ gidx = 1
  /\ selected_chapters = << >>
  /\ pref_prompted = FALSE
  /\ prompted = << >>
  /\ user_skipped = { }
  /\ apc = "idle"
  /\ translated_nums = { }
  /\ all_nums = { }
  /\ missing_chapters = << >>

\* Lines 177-203: the records are grouped by label, the group names are
\* collected, and with more than one name the preferred-group prompt is shown.
GroupChapters ==
  /\ gpc = "group"
  /\ chapter_groups' = ChapterGroups(records)
  /\ all_groups' = AllGroups(records)
  /\ pref_prompted' = (Cardinality(AllGroups(records)) > 1)
  /\ gpc' = IF Cardinality(AllGroups(records)) > 1 THEN "preferred_prompt" ELSE "select"
  /\ UNCHANGED << offset, fetched, resp_total, offsets, records, preferred_group, gidx,
                  selected_chapters, prompted, user_skipped,
                  apc, translated_nums, all_nums, missing_chapters >>
  /\ ListOnly

\* Lines 205-219: one answer at the preferred-group prompt: a blank line, a
\* number, or something that is no number.
PreferredPrompt ==
  /\ gpc = "preferred_prompt"
  /\ \/ \E answer \in { "blank", "text" } :
          /\ gpc' = IF answer = "blank" THEN "select" ELSE "preferred_prompt"
          /\ UNCHANGED preferred_group
     \/ \E choice \in 0..(Len(GroupOrder) + 1) :
          IF 1 <= choice /\ choice <= Len(GroupsList(all_groups))
          THEN /\ preferred_group' = GroupsList(all_groups)[choice]
               /\ gpc' = "select"
          ELSE UNCHANGED << gpc, preferred_group >>
  /\ UNCHANGED << offset, fetched, resp_total, offsets, records, chapter_groups, all_groups,
                  gidx, selected_chapters, pref_prompted, prompted, user_skipped,
                  apc, translated_nums, all_nums, missing_chapters >>
  /\ ListOnly

\* Lines 223-257: the next label: its only version, or the preferred
\* group's version, is selected; otherwise the versions are shown and the
\* version prompt follows.
SelectChapter ==
  /\ gpc = "select"
  /\ gidx <= Len(chapter_groups)
  /\ LET versions == chapter_groups[gidx].versions
         preferred_version ==
           IF preferred_group # "none"
           THEN PreferredVersion(records, versions, preferred_group) ELSE 0
     IN  IF SingleVersion(versions)
         THEN /\ selected_chapters' = Append(selected_chapters, versions[1])
              /\ gidx' = gidx + 1
              /\ UNCHANGED << gpc, prompted >>
         ELSE IF preferred_version # 0
         THEN /\ selected_chapters' = Append(selected_chapters, preferred_version)
              /\ gidx' = gidx + 1
              /\ UNCHANGED << gpc, prompted >>
         ELSE /\ prompted' = Append(prompted, chapter_groups[gidx].label)
              /\ gpc' = "version_prompt"
              /\ UNCHANGED << selected_chapters, gidx >>
  /\ UNCHANGED << offset, fetched, resp_total, offsets, records, chapter_groups, all_groups,
                  preferred_group, pref_prompted, user_skipped,
                  apc, translated_nums, all_nums, missing_chapters >>
  /\ ListOnly

\* Lines 259-273: one answer at the version prompt: 's', a number, or
\* something else.
VersionPrompt ==
  /\ gpc = "version_prompt"
  /\ LET versions == chapter_groups[gidx].versions
     IN  \/ \E answer \in { "s", "text" } :
              IF answer = "s"
              THEN /\ user_skipped' = user_skipped \cup { chapter_groups[gidx].label }
                   /\ gidx' = gidx + 1
                   /\ gpc' = "select"
                   /\ UNCHANGED selected_chapters
              ELSE UNCHANGED << gpc, gidx, selected_chapters, user_skipped >>
         \/ \E choice \in 0..(MaxRecords + 1) :
              IF 1 <= choice /\ choice <= Len(versions)
              THEN /\ selected_chapters' = Append(selected_chapters, versions[choice])
                   /\ gidx' = gidx + 1
                   /\ gpc' = "select"
                   /\ UNCHANGED user_skipped
              ELSE UNCHANGED << gpc, gidx, selected_chapters, user_skipped >>
  /\ UNCHANGED << offset, fetched, resp_total, offsets, records, chapter_groups, all_groups,
                  preferred_group, pref_prompted, prompted,
                  apc, translated_nums, all_nums, missing_chapters >>
  /\ ListOnly

\* Line 275: return selected_chapters
SelectReturn ==
  /\ gpc = "select"
  /\ gidx > Len(chapter_groups)
  /\ gpc' = "returned"
  /\ UNCHANGED << offset, fetched, resp_total, offsets, records, chapter_groups, all_groups,
                  preferred_group, gidx, selected_chapters, pref_prompted, prompted,
                  user_skipped, apc, translated_nums, all_nums, missing_chapters >>
  /\ ListOnly

SelectNext ==
  \/ GroupChapters \/ PreferredPrompt \/ SelectChapter \/ VersionPrompt \/ SelectReturn

(***************************************************************************)
(* Claims about the selection in get_chapters.                             *)
(***************************************************************************)

\* The labels the selection loop is done with.
LabelsDone == { chapter_groups[g].label : g \in 1..(gidx - 1) }

\* The places in selected_chapters of the records with this label.
SelectedFor(label) ==
  { k \in 1..Len(selected_chapters) : records[selected_chapters[k]].label = label }

\* The group names that occur in records that are no external links.
SeriesGroupNames ==
  { GroupName(records[k]) :
      k \in { j \in 1..Len(records) : ~records[j].external /\ records[j].rel # "none" } }

\* The versions of the g-th label that are from the given group.
VersionsFrom(g, group) ==
  { v \in Range(chapter_groups[g].versions) :
      records[v].rel # "none" /\ GroupName(records[v]) = group }

\* C11: get_chapters selects at most one record per chapter label: exactly
\* one for each label (of a record that is no external link) the user did
\* not skip, none for a label the user skipped, and never a record flagged
\* as an external link; when it returns every such label has been dealt with.
C11_OneVersionPerLabel ==
  gpc \in { "select", "version_prompt", "returned" } =>
    /\ \A k \in 1..Len(selected_chapters) : ~records[selected_chapters[k]].external
    /\ \A k \in 1..Len(selected_chapters) :
         Cardinality(SelectedFor(records[selected_chapters[k]].label)) = 1
    /\ \A label \in LabelsDone :
         Cardinality(SelectedFor(label)) = IF label \in user_skipped THEN 0 ELSE 1
    /\ gpc = "returned" =>
         LabelsDone = { records[k].label : k \in { j \in 1..Len(records) : ~records[j].external } }

\* get_chapters has returned; one label was skipped at its version prompt,
\* another has its record selected.
C11_Witness ==
  /\ gpc = "returned"
  /\ user_skipped # { }
  /\ selected_chapters # << >>

\* C12 as stated: the preferred-group prompt is shown exactly when more than
\* one group name occurs; with a preferred group chosen, a label that has a
\* version from that group gets it selected without a prompt, and a label
\* that has none causes a version prompt.
C12_PromptForEveryOtherLabel ==
  gpc \in { "select", "version_prompt", "returned" } =>
    /\ pref_prompted <=> Cardinality(SeriesGroupNames) > 1
    /\ preferred_group # "none" =>
         \A g \in 1..(gidx - 1) :
            LET label == chapter_groups[g].label
            IN  IF VersionsFrom(g, preferred_group) # { }
                THEN /\ label \notin Range(prompted)
                     /\ \E k \in SelectedFor(label) :
                          selected_chapters[k] \in VersionsFrom(g, preferred_group)
                ELSE label \in Range(prompted)

\* C12, amended: the preferred-group prompt is shown exactly when more than
\* one group name occurs among the records that are no external links; a
\* label with exactly one version gets that version selected without a
\* prompt, whatever its group; with a preferred group chosen, a label with
\* several versions gets its first version from that group selected without
\* a prompt if it has one; every other label with several versions causes
\* a version prompt, in which the user picks one version or skips.
C12_PromptUnlessSingleVersion ==
  gpc \in { "select", "version_prompt", "returned" } =>
    /\ pref_prompted <=> Cardinality(SeriesGroupNames) > 1
    /\ preferred_group # "none" => pref_prompted /\ preferred_group \in SeriesGroupNames
    /\ \A g \in 1..(gidx - 1) :
         LET label == chapter_groups[g].label
             versions == chapter_groups[g].versions
             from == IF preferred_group = "none" THEN { }
                     ELSE VersionsFrom(g, preferred_group)
         IN  IF Len(versions) = 1
             THEN /\ label \notin Range(prompted)
                  /\ \E k \in SelectedFor(label) : selected_chapters[k] = versions[1]
             ELSE IF from # { }
             THEN /\ label \notin Range(prompted)
                  /\ \E k \in SelectedFor(label) :
                       /\ selected_chapters[k] \in from
                       /\ \A v \in from : selected_chapters[k] <= v
             ELSE /\ label \in Range(prompted)
                  /\ \/ label \in user_skipped /\ SelectedFor(label) = { }
                     \/ /\ label \notin user_skipped
                        /\ \E k \in SelectedFor(label) : selected_chapters[k] \in Range(versions)

\* With group A preferred, one label got its version of group A without a
\* prompt and another label, whose several versions are all from other
\* groups, caused a version prompt.
C12_Witness ==
  /\ gpc = "returned"
  /\ preferred_group = "A"
  /\ \E g \in 1..Len(chapter_groups) :
       /\ VersionsFrom(g, "A") # { }
       /\ chapter_groups[g].label \notin Range(prompted)
  /\ \E g \in 1..Len(chapter_groups) :
       /\ VersionsFrom(g, "A") = { }
       /\ Len(chapter_groups[g].versions) > 1
       /\ chapter_groups[g].label \in Range(prompted)

(***************************************************************************)
(* downloader.py: get_chapters, the pagination loop.                       *)
(***************************************************************************)

\* limit = 100
Limit == 100

\* Most records a response reports as the total.
MaxTotal == 250

\* len(data["data"]) of the response to a request at this offset when the
\* listing holds total records: the records from the offset on, at most
\* limit of them.
PageSize(total, off) == Min(Limit, Max(0, total - off))

\* offset += limit
NextOffsetMutant(off) == off

NextOffset(off) == off + Limit

PaginateInit ==
  /\ SplitIdle /\ ExtIdle /\ CombIdle /\ FetchIdle
  /\ gpc = "paginate"
  /\ offset = 0
  /\ fetched = 0
  /\ resp_total = 0
  /\ offsets = << >>
  /\ records = << >>
  /\ chapter_groups = << >>
  /\ all_groups = { }
  /\ preferred_group = "none"
  /\ gidx = 1
  /\ selected_chapters = << >>
  /\ pref_prompted = FALSE
  /\ prompted = << >>
  /\ user_skipped = { }
  /\ apc = "idle"
  /\ translated_nums = { }
  /\ all_nums = { }
  /\ missing_chapters = << >>

\* Lines 157-175: one pass of the while loop: the request at the offset, the
\* response's records are added, and the loop ends if there are at least
\* as many as the response's total, else the offset moves on.
PageRequest ==
  /\ gpc = "paginate"
  /\ \E total \in 0..MaxTotal :
       /\ resp_total' = total
       /\ fetched' = fetched + PageSize(total, offset)
       /\ IF fetched + PageSize(total, offset) >= total
          THEN gpc' = "group" /\ UNCHANGED offset
          ELSE offset' = NextOffset(offset) /\ UNCHANGED gpc
  /\ offsets' = Append(offsets, offset)
  /\ UNCHANGED << records, chapter_groups, all_groups, preferred_group, gidx,
                  selected_chapters, pref_prompted, prompted, user_skipped,
                  apc, translated_nums, all_nums, missing_chapters >>
  /\ ListOnly

\* Lines 166-170: the request fails or raise_for_status raises.
PageRequestRaises ==
  /\ gpc = "paginate"
  /\ offsets' = Append(offsets, offset)
  /\ gpc' = "raised"
  /\ UNCHANGED << offset, fetched, resp_total, records, chapter_groups, all_groups,
                  preferred_group, gidx, selected_chapters, pref_prompted, prompted,
                  user_skipped, apc, translated_nums, all_nums, missing_chapters >>
  /\ ListOnly

PaginateNext == PageRequest \/ PageRequestRaises

ListingLabels == { L_5, L_6, L_7, NoneLabel }

\* Lines 377-379: sorted(all_chapter_nums - translated_chapter_nums).
\* Sorting compares the labels, and None cannot be compared with a string.
MissingChapters(translated, all) ==
  LET missing == all \ translated
  IN  IF NoneLabel \in missing /\ missing # { NoneLabel }
      THEN [raises |-> TRUE, list |-> << >>]
      ELSE IF missing = { NoneLabel }
      THEN [raises |-> FALSE, list |-> << NoneLabel >>]
      ELSE [raises |-> FALSE, list |-> SetToSortedSeq(missing)]

AvailInit ==
  /\ SplitIdle /\ ExtIdle /\ CombIdle /\ FetchIdle
  /\ gpc = "idle"
  /\ offset = 0
  /\ fetched = 0
  /\ resp_total = 0
  /\ offsets = << >>
  /\ records = << >>
  /\ chapter_groups = << >>
  /\ all_groups = { }
  /\ preferred_group = "none"
  /\ gidx = 1
  /\ selected_chapters = << >>
  /\ pref_prompted = FALSE
  /\ prompted = << >>
  /\ user_skipped = { }
  /\ apc = "start"
  /\ translated_nums \in SUBSET ListingLabels
  /\ all_nums \in SUBSET ListingLabels
  /\ missing_chapters = << >>

\* Lines 330-389: both listings are fetched and the labels that are only
\* in the unfiltered one are sorted and returned; a TypeError of the sort is
\* caught by neither except clause.
AvailCheck ==
  /\ apc = "start"
  /\ LET result == MissingChapters(translated_nums, all_nums)
     IN  IF result.raises
         THEN apc' = "type_error" /\ UNCHANGED missing_chapters
         ELSE apc' = "returned" /\ missing_chapters' = result.list
  /\ UNCHANGED << gpc, offset, fetched, resp_total, offsets, records, chapter_groups,
                  all_groups, preferred_group, gidx, selected_chapters, pref_prompted,
                  prompted, user_skipped, translated_nums, all_nums >>
  /\ ListOnly

\* Lines 391-394: a request fails; the error is raised again as Exception.
AvailRequestRaises ==
  /\ apc = "start"
  /\ apc' = "request_error"
  /\ UNCHANGED << gpc, offset, fetched, resp_total, offsets, records, chapter_groups,
                  all_groups, preferred_group, gidx, selected_chapters, pref_prompted,
                  prompted, user_skipped, translated_nums, all_nums, missing_chapters >>
  /\ ListOnly

AvailNext == AvailCheck \/ AvailRequestRaises

\* C14: for every pair of listings whose requests succeed,
\* check_chapter_availability returns, and what it returns are exactly the
\* labels that occur in the unfiltered listing and not in the filtered one,
\* each once.
C14_ReturnsMissingLabels ==
  apc \in { "returned", "type_error" } =>
    /\ apc = "returned"
    /\ Range(missing_chapters) = all_nums \ translated_nums
    /\ Len(missing_chapters) = Cardinality(all_nums \ translated_nums)

(***************************************************************************)
(* Further claims about the directory combiner and the splitter.           *)
(***************************************************************************)

\* The directory names of s without a chapter number, in order.
Unparseable(s) == SelectSeq(s, LAMBDA d : ~ExtractChapterNumber(d).ok)

\* C15: a chapter directory whose name gives no chapter number gets a
\* warning and nothing of it is copied, the loop goes on with the remaining
\* directories, and the operation completes and writes the output archive;
\* an exception that ends the loop comes from a directory with a number.
C15_BadDirectorySkipped ==
  /\ (cpc = "raised" /\ chapter_dirs # << >> /\ cidx <= Len(chapter_dirs)) =>
       ExtractChapterNumber(chapter_dirs[cidx]).ok
  /\ cpc \in { "loop", "done" } =>
    /\ warnings = Unparseable(SubSeq(chapter_dirs, 1, cidx - 1))
    /\ \A nm \in DOMAIN temp_dir : ExtractChapterNumber(temp_dir[nm].dir).ok
    /\ cpc = "done" =>
         /\ cidx = Len(chapter_dirs) + 1
         /\ output_state = "complete"
         /\ \A e \in 1..Len(output_cbz) : ExtractChapterNumber(output_cbz[e].src.dir).ok

\* The combiner is done; it warned about a directory and the archive holds
\* an image of a directory that came after that one.
C15_Witness ==
  /\ cpc = "done"
  /\ \E a \in 1..Len(chapter_dirs) : \E b \in (a + 1)..Len(chapter_dirs) :
       /\ chapter_dirs[a] \in Range(warnings)
       /\ \E e \in 1..Len(output_cbz) : output_cbz[e].src.dir = chapter_dirs[b]

\* C17: run from main, the splitter writes no output file when the
\* archive's total size is at most the ceiling (split_cbz is not entered),
\* and output parts exist only if the total size exceeds the ceiling.
C17_NoSplitWithinCeiling ==
  entry = "main" =>
    /\ GetCbzSize(archive) <= max_size =>
         /\ output_files = << >>
         /\ spc \in { "start", "done" }
         /\ files = << >>
    /\ output_files # << >> => GetCbzSize(archive) > max_size

\* main has returned without splitting an archive that fills the ceiling
\* exactly.
C17_Witness ==
  /\ entry = "main"
  /\ spc = "done"
  /\ archive # << >>
  /\ GetCbzSize(archive) = max_size
  /\ output_files = << >>

\* C18: get_chapter_directories returns the directories in non-decreasing
\* order of the key extract_chapter_number gives their names, the ones with
\* an unparseable name, and only they, after all the others.
C18_DirectoriesInKeyOrder ==
  cpc \in { "loop", "done" } =>
    \A a \in 1..Len(chapter_dirs) : \A b \in (a + 1)..Len(chapter_dirs) :
       LET ka == ExtractChapterNumber(chapter_dirs[a])
           kb == ExtractChapterNumber(chapter_dirs[b])
       IN  /\ kb.ok => ka.ok
           /\ (ka.ok /\ kb.ok) => ~KeyLess(kb, ka)

(***************************************************************************)
(* The two combine operations side by side: combine_chapters of the        *)
(* directory combiner and combine_chapters of the fetcher, each started on *)
(* its own with the other one idle.                                        *)
(***************************************************************************)

ScratchInit == CombineInit \/ MergeInit

ScratchNext == CombineNext \/ MergeNext

\* C16: the scratch directory of a combine or merge operation exists while
\* the operation is inside its with block and does not exist once the
\* operation has ended, by a normal return or by an exception of any step.
C16_ScratchRemoved ==
  /\ temp_exists <=> cpc = "loop"
  /\ mtemp_exists <=> mpc = "combine_loop"

\* The merge has ended by the exception of an extraction after an earlier
\* archive was extracted and merged.
C16_Witness ==
  /\ mpc = "except"
  /\ exc.site = "extract_chapter"
  /\ midx >= 2
  /\ combined # << >>
  /\ ~mtemp_exists

(***************************************************************************)
(* Chapter directories whose prefixes collide.                             *)
(***************************************************************************)

\* The generated prefix of a chapter directory with a number.
PrefixOf(d) == ChapterNumStr(ExtractChapterNumber(d))

\* image_files of process_chapter for the chapter directory d.
ImageFiles(d) == SetToSortedSeq({ f \in ItemOf(manga_dir, d).files : IsImage(f) })

\* The names process_chapter generates for the chapter directory d.
GenNames(d) ==
  { NewName(PrefixOf(d), i, ImageFiles(d)[i]) : i \in 1..Len(ImageFiles(d)) }

\* The image of d that is copied to the generated name nm.
GenSource(d, nm) ==
  LET i == CHOOSE j \in 1..Len(ImageFiles(d)) : NewName(PrefixOf(d), j, ImageFiles(d)[j]) = nm
  IN  [dir |-> d, file |-> ImageFiles(d)[i]]

\* The positions in chapter_dirs of the directories with a number.
Numbered == { a \in 1..Len(chapter_dirs) : ExtractChapterNumber(chapter_dirs[a]).ok }

\* Pairs of positions of differently named directories with one prefix.
Colliding ==
  { p \in Numbered \X Numbered :
      p[1] < p[2] /\ PrefixOf(chapter_dirs[p[1]]) = PrefixOf(chapter_dirs[p[2]]) }

\* The output entries whose name begins with the string s.
EntriesUnder(s) ==
  { e \in 1..Len(output_cbz) :
      /\ Len(output_cbz[e].name) >= Len(s)
      /\ SubSeq(output_cbz[e].name, 1, Len(s)) = s }

\* The last position in chapter_dirs whose directory generates the name nm.
LastGenerating(nm) ==
  CHOOSE a \in Numbered :
    /\ nm \in GenNames(chapter_dirs[a])
    /\ \A b \in Numbered : nm \in GenNames(chapter_dirs[b]) => b <= a

\* C19 as stated: of two directories with one prefix (and no third one with
\* it) the later one overwrites the earlier one's files: every page index
\* present in both has one output entry, holding the later directory's
\* image, and the entries under the prefix are as many as the larger of the
\* two page counts.
C19_LaterOverwritesEveryPage ==
  cpc = "done" =>
    \A p \in Colliding :
      LET da == chapter_dirs[p[1]]
          db == chapter_dirs[p[2]]
          P  == PrefixOf(da) \o << "_" >>
          na == Len(ImageFiles(da))
          nb == Len(ImageFiles(db))
      IN  (\A c \in Numbered : PrefixOf(chapter_dirs[c]) = PrefixOf(da) => c \in { p[1], p[2] }) =>
            /\ \A n \in 1..Min(na, nb) :
                 /\ Cardinality(EntriesUnder(P \o ZeroPad(n, 3))) = 1
                 /\ \A e \in EntriesUnder(P \o ZeroPad(n, 3)) : output_cbz[e].src.dir = db
            /\ Cardinality(EntriesUnder(P)) = Max(na, nb)

\* C19 (amended): when the combiner is done with directories of one prefix,
\* a later one has overwritten an earlier one's output file exactly where
\* it generates the same name (same page index and same extension as
\* written): every generated name has one output entry, holding the image
\* of the directory processed last among those that generate it, and the
\* entries under the prefix are as many as the distinct generated names.
C19_LaterOverwritesSameName ==
  cpc = "done" =>
    \A p \in Colliding :
      LET da == chapter_dirs[p[1]]
          db == chapter_dirs[p[2]]
          P  == PrefixOf(da) \o << "_" >>
          sharing == { c \in Numbered : PrefixOf(chapter_dirs[c]) = PrefixOf(da) }
      IN  /\ \A nm \in GenNames(da) \cup GenNames(db) :
               /\ Cardinality({ e \in 1..Len(output_cbz) : output_cbz[e].name = nm }) = 1
               /\ \A e \in 1..Len(output_cbz) :
                    output_cbz[e].name = nm =>
                      output_cbz[e].src = GenSource(chapter_dirs[LastGenerating(nm)], nm)
          /\ Cardinality(EntriesUnder(P))
               = Cardinality(UNION { GenNames(chapter_dirs[c]) : c \in sharing })

\* The combiner is done with two directories of one prefix: one name was
\* generated by both and another by the earlier directory only.
C19_Witness ==
  /\ cpc = "done"
  /\ \E p \in Colliding :
       /\ GenNames(chapter_dirs[p[1]]) \cap GenNames(chapter_dirs[p[2]]) # { }
       /\ GenNames(chapter_dirs[p[1]]) \ GenNames(chapter_dirs[p[2]]) # { }

(***************************************************************************)
(* Further claims about the fetcher's main.                                *)
(***************************************************************************)

\* The files of the manga folder and what they hold.
FolderFiles == << folder_exists, folder, cbz, stats_file >>

\* C21: at the resume prompt, '1' leaves every file and the set of
\* downloaded labels as they are; '2' deletes every per-chapter archive and
\* no file ending in _combined.cbz (nor any other file) and empties the set
\* of downloaded labels; '3' ends the run with every file as it was when the
\* run began; any other input asks again and changes nothing.
C21_ResumePromptEffects ==
  /\ [][ mpc = "resume_prompt" =>
           /\ mpc' \in { "resume_prompt", "metadata", "returned" }
           /\ mpc' = "resume_prompt" => UNCHANGED fetchVars
           /\ mpc' = "metadata" => resume_choice' \in { "1", "2" }
           /\ (mpc' = "metadata" /\ resume_choice' = "1") =>
                UNCHANGED << FolderFiles, downloaded_chapters >>
           /\ (mpc' = "metadata" /\ resume_choice' = "2") =>
                /\ \A f \in folder :
                     (EndsWith(f, S_cbz) /\ ~EndsWith(f, S_combined_cbz)) => f \notin folder'
                /\ \A f \in folder : EndsWith(f, S_combined_cbz) => f \in folder'
                /\ \A f \in folder : ~EndsWith(f, S_cbz) => f \in folder'
                /\ folder' \subseteq folder
                /\ downloaded_chapters' = { }
                /\ UNCHANGED << folder_exists, stats_file >>
           /\ mpc' = "returned" =>
                /\ resume_choice' = "3"
                /\ UNCHANGED << FolderFiles, downloaded_chapters >> ]_vars
  /\ []((mpc = "returned" /\ resume_choice = "3") =>
          /\ folder = folder0
          /\ cbz = PriorCbz(folder0)
          /\ folder_exists)

\* Start fresh was chosen in a folder that held per-chapter archives, a
\* combined archive and the cover: the archives are gone, the other two
\* files are still there.
C21_Witness ==
  /\ mpc = "metadata"
  /\ resume_choice = "2"
  /\ \E f \in folder0 : IsChapterArchive(f)
  /\ { CombinedName, CoverName } \subseteq folder0
  /\ { CombinedName, CoverName } \subseteq folder
  /\ downloaded_chapters = { }

\* C23 as stated: once main has left by an exception raised after the manga
\* folder was created, the folder and everything in it is gone.
C23_FolderDeletedOnEveryFailure ==
  (mpc = "raised" /\ exc.site # "search") =>
    /\ ~folder_exists
    /\ folder = { }

\* C23 (amended): the except block removes the manga folder on exactly the
\* exceptions raised after the folder was created, with everything in it
\* (archives of earlier runs included), unless the removal itself raises,
\* which leaves the folder or a part of it; a normal return (quit at the
\* resume prompt, 'n' at the availability prompt, no chapters found) and an
\* exception raised before the folder is created delete nothing.
C23_FolderDeletedUnlessCleanupFails ==
  /\ [][ /\ (mpc = "except" /\ mpc' = "raised") =>
              IF exc.site = "search"
              THEN UNCHANGED FolderFiles
              ELSE \/ /\ ~cleanup_failed'
                      /\ ~folder_exists'
                      /\ folder' = { }
                      /\ cbz' = << >>
                      /\ stats_file' = NoStats
                   \/ /\ cleanup_failed'
                      /\ folder_exists'
                      /\ folder' \subseteq folder
         /\ mpc' = "returned" => UNCHANGED FolderFiles
         /\ (folder_exists /\ ~folder_exists') => (mpc = "except" /\ exc.site # "search")
         /\ (cleanup_failed' /\ ~cleanup_failed) => (mpc = "except" /\ exc.site # "search")
       ]_vars
  /\ []((mpc = "except" /\ exc.site # "search") => folder_exists)
  /\ []((mpc = "raised" /\ exc.site # "search" /\ ~cleanup_failed) =>
          (~folder_exists /\ folder = { }))
  /\ []((mpc = "returned" /\ resume_choice # "2") => folder0 \subseteq folder)

\* The chapter listing failed in a folder that held a per-chapter archive and
\* a combined archive of an earlier run; main has raised and the folder is
\* gone.
C23_Witness ==
  /\ mpc = "raised"
  /\ exc.site = "get_chapters"
  /\ { CbzName(L_5), CombinedName } \subseteq folder0
  /\ ~cleanup_failed
  /\ ~folder_exists
  /\ folder = { }

(***************************************************************************)
(* A further claim about the splitter.                                     *)
(***************************************************************************)

\* C22: every part split_cbz has written holds at least one entry, the
\* parts are numbered 1, 2, 3, ... in the order written, and each part but
\* the last is maximal for the greedy rule: its size sum plus the size of
\* the first entry of the following part exceeds the ceiling.
C22_PartsGreedyMaximal ==
  /\ \A p \in 1..Len(output_files) :
       /\ Len(output_files[p].entries) >= 1
       /\ output_files[p].part = p
  /\ \A p \in 1..(Len(output_files) - 1) :
       SumSizes(output_files[p].entries) + output_files[p + 1].entries[1].size > max_size
  /\ spc = "loop" =>
       /\ current_part = Len(output_files) + 1
       /\ (output_files # << >> /\ current_files # << >>) =>
            SumSizes(output_files[Len(output_files)].entries)
              + GetInfo(archive, current_files[1]).size > max_size

\* A finished split into several parts whose first part holds two entries
\* and still has room below the ceiling.
C22_Witness ==
  /\ SplitRan
  /\ Len(output_files) >= 2
  /\ Len(output_files[1].entries) >= 2
  /\ SumSizes(output_files[1].entries) < max_size

(***************************************************************************)
(* Specifications: one per tool, the other tools' variables idle.          *)
(***************************************************************************)
SpecSplit == SplitInit /\ [][SplitNext]_vars

SpecExtract == ExtractInit /\ [][ExtractNext]_vars

SpecCombine == CombineInit /\ [][CombineNext]_vars

SpecFetch == FetchInit /\ [][FetchNext]_vars

SpecMerge == MergeInit /\ [][MergeNext]_vars

SpecSelect == SelectInit /\ [][SelectNext]_vars

SpecAvail == AvailInit /\ [][AvailNext]_vars

\* The pagination loop goes on as long as it can: a request is always answered
\* or fails.
SpecPaginate == PaginateInit /\ [][PaginateNext]_vars /\ WF_vars(PaginateNext)

\* Both combine operations, for the claim about their scratch directories.
SpecScratch == ScratchInit /\ [][ScratchNext]_vars

====
